---- MODULE Spec2Model ----
(***************************************************************************)
(* The mesh routing engine of UltraRF (mesh.py, class MeshNetwork) as a    *)
(* state machine: the node table, the routing table and the neighbor set   *)
(* behind one lock, caller threads running the public operations, and the  *)
(* maintenance thread(s) running the eviction loop.                        *)
(*                                                                         *)
(* Units: time is in whole seconds (time.time()), a signal strength is in  *)
(* hundredths (85 is 0.85), a bandwidth estimate is in hundredths of Mbps. *)
(* A Python dict is a function whose DOMAIN is the dict's key set.         *)
(***************************************************************************)
EXTENDS Integers, Sequences, FiniteSets, TLC

----------------------------------------------------------------------------
(* Bounds of the model *)

\* the clock stops advancing here
MaxTime == 181
\* inputs handed to the engine, in total: each public operation begun counts
\* one, and so does each announcement of a batch after its first
MaxCalls == 2
\* announcements in one batch handed to process_route_announcement
MaxBatch == 2

\* the metric function is applied to signals 0.00 .. MaxSignal / 100 and to
\* hop counts 1 .. MaxHops
MaxSignal == 100
MaxHops == 6

\* announcements in a list that is fixed before the call begins
MaxList == 2
\* the slots of a TDMA frame
NumSlots == 2
\* the paths added for one destination of a MeshServices object
MaxPaths == 3

\* amounts by which the clock advances between two steps
Deltas == {60, 90, 91}

----------------------------------------------------------------------------
(* Identities and input domains *)

local_node_id == "local"
NodeIds == {"node-A", "node-B"}
AllIds == NodeIds \cup {local_node_id}
Callsigns == {"REL-1"}
\* signal strengths callers hand in, in hundredths
Signals == {50, 100}
\* hop counts carried by announcements
AnnHops == {0, 1, 2, 5}
\* destinations announcements are about, and the nodes they come from
AnnDests == {"node-B"}
\* destinations callers ask find_route and get_next_hop about
QueryDests == {"node-B", "node-A"}
AnnSources == {"node-A"}

\* threads calling the public operations, and maintenance threads start() may create
Threads == {"t1", "t2"}
MaintIds == {"m1", "m2"}
AllThreads == Threads \cup MaintIds

\* Python's None where a thread id or a node id is expected
NoneId == "<None>"
\* the lock when no thread holds it
Free == "<free>"

\* An announcement is a dict: a function whose DOMAIN is the keys it carries.
WellFormed ==
    [destination : AnnDests, hop_count : AnnHops, signal_strength : Signals]
    \cup {[destination |-> local_node_id, hop_count |-> 0, signal_strength |-> 100]}
\* dicts that lack one of the three keys
Malformed ==
    {[hop_count |-> 1, signal_strength |-> 100],
     [destination |-> "node-B", signal_strength |-> 100],
     [destination |-> "node-B", hop_count |-> 1]}
Announcements == WellFormed \cup Malformed
Has(d, key) == key \in DOMAIN d

----------------------------------------------------------------------------
(* Configuration set by __init__ *)

route_update_interval == 30
node_timeout == 180
max_hop_count == 5
\* stop(): maintenance_thread.join(timeout=5.0)
JoinTimeout == 5
\* _maintenance_loop: time.sleep(5.0) after a tick that raised
BackoffSeconds == 5

----------------------------------------------------------------------------
(* The metric model *)

RECURSIVE Pow(_, _)
Pow(b, e) == IF e <= 0 THEN 1 ELSE b * Pow(b, e - 1)

\* signal_strength * (0.8 ** (hop_count - 1)) > k/10, for s in hundredths and
\* hop_count >= 1.  In exact arithmetic this is s * 8^(h-1) > k * 10^h.  The
\* code computes in IEEE doubles, which agrees with the exact comparison for
\* every s below 10.0 and h in 1..7 except 0.75 * 0.8 = 0.6000000000000001
\* and 1.25 * 0.64 = 0.8000000000000002.  A signal of 10.0 or more (a
\* bandwidth estimate that came in as a signal) is above every threshold at
\* these hop counts, 10 * 0.8^6 being 2.6; the products are not formed for it.
AdjustedAbove(s, h, k) ==
    \/ s >= 1000
    \/ s * Pow(8, h - 1) > k * Pow(10, h)
    \/ (s = 75 /\ h = 2 /\ k = 6)
    \/ (s = 125 /\ h = 3 /\ k = 8)

\* _calculate_metric had the two middle classes been exchanged
CalculateMetric_ClassesSwapped(signal_strength, hop_count) ==
    IF AdjustedAbove(signal_strength, hop_count, 8) THEN 1
    ELSE IF AdjustedAbove(signal_strength, hop_count, 6) THEN 3
    ELSE IF AdjustedAbove(signal_strength, hop_count, 4) THEN 2
    ELSE IF AdjustedAbove(signal_strength, hop_count, 2) THEN 4
    ELSE 5

\* _calculate_metric: the RouteMetric value, 1 (EXCELLENT) .. 5 (UNREACHABLE)
CalculateMetric(signal_strength, hop_count) ==
    IF AdjustedAbove(signal_strength, hop_count, 8) THEN 1
    ELSE IF AdjustedAbove(signal_strength, hop_count, 6) THEN 2
    ELSE IF AdjustedAbove(signal_strength, hop_count, 4) THEN 3
    ELSE IF AdjustedAbove(signal_strength, hop_count, 2) THEN 4
    ELSE 5

\* _estimate_bandwidth: max(0.1, signal_strength * 50.0), in hundredths of Mbps
EstimateBandwidth(signal_strength) ==
    IF signal_strength * 50 > 10 THEN signal_strength * 50 ELSE 10

\* _is_better_route had it preferred fewer hops over a better metric
IsBetterRoute_HopsFirst(new_metric, new_hop_count, existing_route) ==
    \/ new_hop_count < existing_route.hop_count
    \/ (new_hop_count = existing_route.hop_count
        /\ new_metric < existing_route.metric)

\* _is_better_route had it let a tie on both metric and hops win
IsBetterRoute_OrEqual(new_metric, new_hop_count, existing_route) ==
    \/ new_metric < existing_route.metric
    \/ (new_metric = existing_route.metric
        /\ new_hop_count <= existing_route.hop_count)

\* _is_better_route had lines 298-300 been left out
IsBetterRoute_MetricOnly(new_metric, new_hop_count, existing_route) ==
    new_metric < existing_route.metric

\* _is_better_route: better metric wins; same metric, fewer hops wins
IsBetterRoute(new_metric, new_hop_count, existing_route) ==
    \/ new_metric < existing_route.metric
    \/ (new_metric = existing_route.metric
        /\ new_hop_count < existing_route.hop_count)

----------------------------------------------------------------------------
(* State *)

VARIABLES
    nodes,               \* self.nodes: node id -> MeshNode
    routing_table,       \* self.routing_table: destination -> RouteInfo
    neighbor_nodes,      \* self.neighbor_nodes
    lock,                \* self.lock: Free, or the thread holding it
    running,             \* self.running
    maintenance_thread,  \* self.maintenance_thread: NoneId or a maintenance thread
    now,                 \* what time.time() returns
    pc,                  \* each thread's position in the code
    frame,               \* each thread's arguments and local variables
    result,              \* what each caller's last operation returned or raised
    calls,               \* inputs handed to the engine so far
    peer_table,          \* the routing_table of a second engine, node-B
    services,            \* a MeshServices object
    tdma,                \* a SimpleTDMA or a DynamicTDMA object
    history              \* what is remembered of the calls made on services or tdma

vars == <<nodes, routing_table, neighbor_nodes, lock, running,
          maintenance_thread, now, pc, frame, result, calls,
          peer_table, services, tdma, history>>

store == <<nodes, routing_table, neighbor_nodes>>

\* the objects beside the routing engine
beside == <<services, tdma, history>>

\* Python's None where an object is expected
None == [kind |-> "None"]
NoFrame == [op |-> "none"]
EmptyDict == [x \in {} |-> None]

DictPut(d, key, value) ==
    [x \in DOMAIN d \cup {key} |-> IF x = key THEN value ELSE d[x]]
DictDel(d, keys) == [x \in DOMAIN d \ keys |-> d[x]]
\* the list a dict of lists holds for key, the empty list if it has none
DictGetSeq(d, key) == IF key \in DOMAIN d THEN d[key] ELSE <<>>
\* dict.get(key): the value, or None
DictGet(d, key) == IF key \in DOMAIN d THEN d[key] ELSE None

\* MeshNode(callsign, node_id, last_seen, hop_count, signal_strength); the
\* fields battery_level, is_gateway and routes keep their defaults for ever
MeshNode(callsign, node_id, last_seen, hop_count, signal_strength) ==
    [callsign |-> callsign, node_id |-> node_id, last_seen |-> last_seen,
     hop_count |-> hop_count, signal_strength |-> signal_strength]

RouteInfo(destination, next_hop, hop_count, metric, last_updated, bandwidth_estimate) ==
    [destination |-> destination, next_hop |-> next_hop, hop_count |-> hop_count,
     metric |-> metric, last_updated |-> last_updated,
     bandwidth_estimate |-> bandwidth_estimate]

\* An object is a record whose DOMAIN is the attributes it has; reading an
\* attribute it has not raises AttributeError.
HasAttr(obj, attr) == attr \in DOMAIN obj
\* the destinations whose entry cannot be aged: route.last_updated raises
Unreadable(table) == {d \in DOMAIN table : ~HasAttr(table[d], "last_updated")}

(* A caller that got a RouteInfo from find_route holds a reference to the    *)
(* object, not a copy.  A reference is live while routing_table still holds  *)
(* that object under dest; once the table replaces or deletes the entry the  *)
(* caller is left with the old object (obj), which the table no longer has.  *)
LiveRef(d) == [kind |-> "ref", dest |-> d, live |-> TRUE, obj |-> None]
IsRef(r) == r.kind = "ref"
Deref(r) == IF r.live THEN routing_table[r.dest] ELSE r.obj
\* the callers' references after the table dropped its objects for keys
Detached(keys) ==
    [t \in Threads |->
        IF IsRef(result[t]) /\ result[t].live /\ result[t].dest \in keys
        THEN [result[t] EXCEPT !.live = FALSE, !.obj = routing_table[result[t].dest]]
        ELSE result[t]]

\* no call has been made on services or tdma: last is the last call with what
\* it returned, added[dest] the paths add_path was given for dest, in the order
\* of the calls, and handed[dest] what the load_balance(dest) calls of the
\* current round returned
NoHistory == [last |-> None, added |-> EmptyDict, handed |-> EmptyDict]

\* MeshServices.__init__
MeshServices == [paths |-> EmptyDict]

\* SimpleTDMA.__init__: slots = [None] * num_slots, indexed from 0
SimpleTDMA(num_slots) ==
    [class |-> "SimpleTDMA", num_slots |-> num_slots,
     slots |-> [i \in 0..(num_slots - 1) |-> NoneId]]

\* DynamicTDMA.__init__: slots and qos = [None] * num_slots
DynamicTDMA(num_slots) ==
    [class |-> "DynamicTDMA", num_slots |-> num_slots,
     slots |-> [i \in 0..(num_slots - 1) |-> NoneId],
     qos |-> [i \in 0..(num_slots - 1) |-> None]]

\* the objects beside the engine, fresh and never called
InitBeside ==
    /\ services = MeshServices
    /\ tdma = SimpleTDMA(NumSlots)
    /\ history = NoHistory

Init ==
    /\ nodes = EmptyDict
    /\ routing_table = EmptyDict
    /\ neighbor_nodes = {}
    /\ lock = Free
    /\ running = FALSE
    /\ maintenance_thread = NoneId
    /\ now = 0
    /\ pc = [t \in AllThreads |-> IF t \in Threads THEN "idle" ELSE "unborn"]
    /\ frame = [t \in AllThreads |-> NoFrame]
    /\ result = [t \in Threads |-> None]
    /\ calls = 0
    /\ InitBeside
    /\ peer_table = EmptyDict

\* a caller thread enters `with self.lock:` of a public operation
Enter(t, to, fr, cost) ==
    /\ pc[t] = "idle"
    /\ lock = Free
    /\ calls + cost <= MaxCalls
    /\ lock' = t
    /\ calls' = calls + cost
    /\ UNCHANGED <<peer_table, beside>>
    /\ pc' = [pc EXCEPT ![t] = to]
    /\ frame' = [frame EXCEPT ![t] = fr]

\* The clock is followed up to MaxTime.  Once it cannot advance within the
\* bound any more the model has lost track of it: time still passes, so a
\* sleep or a join timeout that is pending then does end.
Horizon == \A d \in Deltas : now + d > MaxTime
TimerExpired(deadline) == now >= deadline \/ Horizon

\* the thread leaves the with block (the lock is released) and its operation ends
Leave(t) ==
    /\ lock' = Free
    /\ pc' = [pc EXCEPT ![t] = "idle"]
    /\ frame' = [frame EXCEPT ![t] = NoFrame]

----------------------------------------------------------------------------
(* add_neighbor *)

AddNeighborEnter(t, callsign, node_id, signal_strength) ==
    /\ Enter(t, "an_nodes", [op |-> "add_neighbor", callsign |-> callsign,
                             node_id |-> node_id,
                             signal_strength |-> signal_strength], 1)
    /\ UNCHANGED <<store, running, maintenance_thread, now, result>>

\* lines 102-110: self.nodes[node_id] = MeshNode(..., hop_count=1, ...)
AddNeighborNode(t) ==
    /\ pc[t] = "an_nodes"
    /\ nodes' = DictPut(nodes, frame[t].node_id,
                        MeshNode(frame[t].callsign, frame[t].node_id, now, 1,
                                 frame[t].signal_strength))
    /\ pc' = [pc EXCEPT ![t] = "an_neighbor"]
    /\ UNCHANGED <<routing_table, neighbor_nodes, lock, running,
                   maintenance_thread, now, frame, result, calls, peer_table, beside>>

\* line 111: self.neighbor_nodes.add(node_id)
AddNeighborIndex(t) ==
    /\ pc[t] = "an_neighbor"
    /\ neighbor_nodes' = neighbor_nodes \cup {frame[t].node_id}
    /\ pc' = [pc EXCEPT ![t] = "an_route"]
    /\ UNCHANGED <<nodes, routing_table, lock, running, maintenance_thread,
                   now, frame, result, calls, peer_table, beside>>

\* lines 114-123 had the direct route been installed only for a new destination
AddNeighborRoute_KeepsExisting(t) ==
    /\ pc[t] = "an_route"
    /\ LET id == frame[t].node_id
           s == frame[t].signal_strength
       IN /\ routing_table' =
                IF id \in DOMAIN routing_table THEN routing_table
                ELSE DictPut(routing_table, id,
                             RouteInfo(id, id, 1, CalculateMetric(s, 1), now,
                                       EstimateBandwidth(s)))
          /\ Leave(t)
          /\ result' = [result EXCEPT ![t] = None]
    /\ UNCHANGED <<nodes, neighbor_nodes, running, maintenance_thread, now,
                   calls, peer_table, beside>>

\* lines 114-123: the direct route overwrites whatever the table held; the
\* with block ends and add_neighbor returns None
AddNeighborRoute(t) ==
    /\ pc[t] = "an_route"
    /\ LET id == frame[t].node_id
           s == frame[t].signal_strength
       IN /\ routing_table' =
                DictPut(routing_table, id,
                        RouteInfo(id, id, 1, CalculateMetric(s, 1), now,
                                  EstimateBandwidth(s)))
          /\ Leave(t)
             \* a reference another caller holds to the replaced object goes stale
          /\ result' = [Detached({id} \cap DOMAIN routing_table) EXCEPT ![t] = None]
    /\ UNCHANGED <<nodes, neighbor_nodes, running, maintenance_thread, now,
                   calls, peer_table, beside>>

----------------------------------------------------------------------------
(* process_route_announcement *)

\* lines 133-134: route_data['destination'], route_data['hop_count'] raise
\* KeyError on a dict without the key
RaisesKeyError(route_data) ==
    ~Has(route_data, "destination") \/ ~Has(route_data, "hop_count")

\* line 137 had it compared against one hop more
TooManyHops_OffByOne(hop_count) == hop_count > max_hop_count + 1

\* line 137: if hop_count > self.max_hop_count
TooManyHops(hop_count) == hop_count > max_hop_count

\* lines 137-142 had the check of line 141 been left out
Skipped_HopsOnly(route_data) == TooManyHops(route_data.hop_count + 1)

\* lines 137-142: the two `continue`s, for hop_count = route_data['hop_count'] + 1
Skipped(route_data) ==
    \/ TooManyHops(route_data.hop_count + 1)
    \/ route_data.destination = local_node_id

\* line 145: route_data.get('signal_strength', 0.0)
SignalOf(route_data) ==
    IF Has(route_data, "signal_strength") THEN route_data.signal_strength ELSE 0

\* lines 152-159 had hop_count been stored as announced, without the + 1
NewRoute_HopsAsAnnounced(route_data, from_node, current_time) ==
    RouteInfo(route_data.destination, from_node, route_data.hop_count,
              CalculateMetric(SignalOf(route_data), route_data.hop_count + 1),
              current_time, EstimateBandwidth(SignalOf(route_data)))

\* lines 152-159 had the sender been stored as the destination
NewRoute_DestinationIsSender(route_data, from_node, current_time) ==
    RouteInfo(from_node, from_node, route_data.hop_count + 1,
              CalculateMetric(SignalOf(route_data), route_data.hop_count + 1),
              current_time, EstimateBandwidth(SignalOf(route_data)))

\* lines 152-159: the RouteInfo built for an announcement
NewRoute(route_data, from_node, current_time) ==
    RouteInfo(route_data.destination, from_node, route_data.hop_count + 1,
              CalculateMetric(SignalOf(route_data), route_data.hop_count + 1),
              current_time, EstimateBandwidth(SignalOf(route_data)))

\* line 150: the announcement's route is installed
Wins(route_data, existing_route) ==
    \/ existing_route = None
    \/ IsBetterRoute(CalculateMetric(SignalOf(route_data), route_data.hop_count + 1),
                     route_data.hop_count + 1, existing_route)

\* lines 129-130: the lock is taken and current_time read once for the batch;
\* routes is a list of n dicts
ProcessEnter(t, from_node, n) ==
    /\ Enter(t, "pra_loop", [op |-> "process_route_announcement",
                             from_node |-> from_node, current_time |-> now,
                             left |-> n, route_data |-> None,
                             existing_route |-> None],
             IF n = 0 THEN 1 ELSE n)
    /\ UNCHANGED <<store, running, maintenance_thread, now, result>>

\* line 132: the for loop takes the next dict of the list
ProcessNext(t, route_data) ==
    /\ pc[t] = "pra_loop"
    /\ frame[t].left > 0
    /\ frame' = [frame EXCEPT ![t].left = @ - 1, ![t].route_data = route_data]
    /\ pc' = [pc EXCEPT ![t] = "pra_body"]
    /\ UNCHANGED <<store, lock, running, maintenance_thread, now, result, calls, peer_table, beside>>

\* the loop body had it counted an announcement as contact with its sender:
\* the sender's last_seen is set to the time of the call
ProcessBody_TouchesSender(t) ==
    /\ pc[t] = "pra_body"
    /\ LET a == frame[t].route_data IN
       IF RaisesKeyError(a)
       THEN /\ pc' = [pc EXCEPT ![t] = "pra_raise"]
            /\ UNCHANGED <<routing_table, frame, result>>
       ELSE IF Skipped(a)
       THEN /\ pc' = [pc EXCEPT ![t] = "pra_loop"]
            /\ UNCHANGED <<routing_table, frame, result>>
       ELSE LET existing_route == DictGet(routing_table, a.destination) IN
            /\ pc' = [pc EXCEPT ![t] = "pra_loop"]
            /\ frame' = [frame EXCEPT ![t].existing_route = existing_route]
            /\ IF Wins(a, existing_route)
               THEN /\ routing_table' =
                          DictPut(routing_table, a.destination,
                                  NewRoute(a, frame[t].from_node,
                                           frame[t].current_time))
                    /\ result' = Detached({a.destination} \cap DOMAIN routing_table)
               ELSE UNCHANGED <<routing_table, result>>
    /\ nodes' = [id \in DOMAIN nodes |->
                    IF id = frame[t].from_node
                    THEN [nodes[id] EXCEPT !.last_seen = frame[t].current_time]
                    ELSE nodes[id]]
    /\ UNCHANGED <<neighbor_nodes, lock, running, maintenance_thread,
                   now, calls, peer_table, beside>>

\* lines 133-164: the loop body for one announcement
ProcessBody(t) ==
    /\ pc[t] = "pra_body"
    /\ LET a == frame[t].route_data IN
       IF RaisesKeyError(a)
       THEN /\ pc' = [pc EXCEPT ![t] = "pra_raise"]
            /\ UNCHANGED <<routing_table, frame, result>>
       ELSE IF Skipped(a)
       THEN /\ pc' = [pc EXCEPT ![t] = "pra_loop"]
            /\ UNCHANGED <<routing_table, frame, result>>
       ELSE LET existing_route == DictGet(routing_table, a.destination) IN
            /\ pc' = [pc EXCEPT ![t] = "pra_loop"]
            /\ frame' = [frame EXCEPT ![t].existing_route = existing_route]
            /\ IF Wins(a, existing_route)
               THEN /\ routing_table' =
                          DictPut(routing_table, a.destination,
                                  NewRoute(a, frame[t].from_node,
                                           frame[t].current_time))
                    /\ result' = Detached({a.destination} \cap DOMAIN routing_table)
               ELSE UNCHANGED <<routing_table, result>>
    /\ UNCHANGED <<nodes, neighbor_nodes, lock, running, maintenance_thread,
                   now, calls, peer_table, beside>>

\* the KeyError path had the lock been taken without a with block
ProcessRaise_KeepsLock(t) ==
    /\ pc[t] = "pra_raise"
    /\ pc' = [pc EXCEPT ![t] = "idle"]
    /\ frame' = [frame EXCEPT ![t] = NoFrame]
    /\ result' = [result EXCEPT ![t] = [kind |-> "KeyError"]]
    /\ UNCHANGED <<store, lock, running, maintenance_thread, now, calls, peer_table, beside>>

\* the KeyError leaves the with block, which releases the lock, and
\* propagates to the caller; the rest of the list is never looked at
ProcessRaise(t) ==
    /\ pc[t] = "pra_raise"
    /\ Leave(t)
    /\ result' = [result EXCEPT ![t] = [kind |-> "KeyError"]]
    /\ UNCHANGED <<store, running, maintenance_thread, now, calls, peer_table, beside>>

\* the list is exhausted: the with block ends, the call returns None
ProcessReturn(t) ==
    /\ pc[t] = "pra_loop"
    /\ frame[t].left = 0
    /\ Leave(t)
    /\ result' = [result EXCEPT ![t] = None]
    /\ UNCHANGED <<store, running, maintenance_thread, now, calls, peer_table, beside>>

----------------------------------------------------------------------------
(* find_route, get_next_hop *)

\* line 168, entered directly (op = "find_route") or from get_next_hop
FindRouteEnter(t, op, destination) ==
    /\ Enter(t, "fr_body", [op |-> op, destination |-> destination], 1)
    /\ UNCHANGED <<store, running, maintenance_thread, now, result>>

\* line 169 had it been self.routing_table[destination]: KeyError when absent
FindRouteReturn_Subscript(t) ==
    /\ pc[t] = "fr_body"
    /\ lock' = Free
    /\ result' = [result EXCEPT ![t] =
                    IF frame[t].destination \in DOMAIN routing_table
                    THEN LiveRef(frame[t].destination)
                    ELSE [kind |-> "KeyError"]]
    /\ pc' = [pc EXCEPT ![t] = "idle"]
    /\ frame' = [frame EXCEPT ![t] = NoFrame]
    /\ UNCHANGED <<store, running, maintenance_thread, now, calls, peer_table, beside>>

\* line 169: return self.routing_table.get(destination): the stored object
\* itself, or None; get_next_hop goes on to line 174 with it
FindRouteReturn(t) ==
    /\ pc[t] = "fr_body"
    /\ lock' = Free
    /\ result' = [result EXCEPT ![t] =
                    IF frame[t].destination \in DOMAIN routing_table
                    THEN LiveRef(frame[t].destination) ELSE None]
    /\ IF frame[t].op = "get_next_hop"
       THEN pc' = [pc EXCEPT ![t] = "gnh_read"] /\ UNCHANGED frame
       ELSE /\ pc' = [pc EXCEPT ![t] = "idle"]
            /\ frame' = [frame EXCEPT ![t] = NoFrame]
    /\ UNCHANGED <<store, running, maintenance_thread, now, calls, peer_table, beside>>

\* line 174: return route.next_hop if route else None, outside the lock
GetNextHopRead(t) ==
    /\ pc[t] = "gnh_read"
    /\ result' = [result EXCEPT ![t] =
                    IF IsRef(result[t])
                    THEN [kind |-> "value", value |-> Deref(result[t]).next_hop]
                    ELSE None]
    /\ pc' = [pc EXCEPT ![t] = "idle"]
    /\ frame' = [frame EXCEPT ![t] = NoFrame]
    /\ UNCHANGED <<store, lock, running, maintenance_thread, now, calls, peer_table, beside>>

----------------------------------------------------------------------------
(* get_route_announcements *)

\* line 178
GetRouteAnnouncementsEnter(t) ==
    /\ Enter(t, "gra_body", [op |-> "get_route_announcements"], 1)
    /\ UNCHANGED <<store, running, maintenance_thread, now, result>>

\* line 183 had it used >=
TooOldToAnnounce_AtThreshold(route, current_time) ==
    current_time - route.last_updated >= route_update_interval * 2

\* line 183: if time.time() - route.last_updated > self.route_update_interval * 2
TooOldToAnnounce(route, current_time) ==
    current_time - route.last_updated > route_update_interval * 2

\* lines 186-192: the dict built for one entry; the bandwidth estimate goes
\* out under the key signal_strength
Announcement(destination, route) ==
    [destination |-> destination, hop_count |-> route.hop_count,
     metric |-> route.metric, signal_strength |-> route.bandwidth_estimate,
     timestamp |-> route.last_updated]

\* lines 179-195: the list of announcements (its order, the dict's insertion
\* order, is left out: the list is kept as the set of its elements, which are
\* distinct because their destinations are); the with block ends
GetRouteAnnouncementsReturn(t) ==
    /\ pc[t] = "gra_body"
    /\ Leave(t)
    /\ result' = [result EXCEPT ![t] =
                    IF Unreadable(routing_table) # {}
                    THEN [kind |-> "AttributeError"]
                    ELSE
                    [kind |-> "list",
                     value |-> {Announcement(d, routing_table[d]) :
                                  d \in {x \in DOMAIN routing_table :
                                            ~TooOldToAnnounce(routing_table[x], now)}}]]
    /\ UNCHANGED <<store, running, maintenance_thread, now, calls, peer_table, beside>>

----------------------------------------------------------------------------
(* start, stop *)

\* a Thread object start() can still create
Unborn == {m \in MaintIds : pc[m] = "unborn"}

\* line 76; the model stops creating threads when MaintIds is used up
StartEnter(t) ==
    /\ running \/ Unborn # {}
    /\ Enter(t, "start_body", [op |-> "start"], 1)
    /\ UNCHANGED <<store, running, maintenance_thread, now, result>>

\* lines 77-85: return if already running; else set the flag, create the
\* maintenance thread and start it.  Either way the with block ends.
StartBody(t) ==
    /\ pc[t] = "start_body"
    /\ lock' = Free
    /\ frame' = [frame EXCEPT ![t] = NoFrame]
    /\ result' = [result EXCEPT ![t] = None]
    /\ IF running
       THEN /\ pc' = [pc EXCEPT ![t] = "idle"]
            /\ UNCHANGED <<running, maintenance_thread>>
       ELSE \E m \in Unborn :
            /\ running' = TRUE
            /\ maintenance_thread' = m
            /\ pc' = [pc EXCEPT ![t] = "idle", ![m] = "loop"]
    /\ UNCHANGED <<store, now, calls, peer_table, beside>>

\* line 91
StopEnter(t) ==
    /\ Enter(t, "stop_body", [op |-> "stop"], 1)
    /\ UNCHANGED <<store, running, maintenance_thread, now, result>>

\* line 92 had the join been inside the with block: the lock is kept
StopBody_KeepsLock(t) ==
    /\ pc[t] = "stop_body"
    /\ running' = FALSE
    /\ pc' = [pc EXCEPT ![t] = "stop_read"]
    /\ UNCHANGED <<store, lock, maintenance_thread, now, frame, result, calls, peer_table, beside>>

\* line 92: clear the flag; the with block ends
StopBody(t) ==
    /\ pc[t] = "stop_body"
    /\ running' = FALSE
    /\ lock' = Free
    /\ pc' = [pc EXCEPT ![t] = "stop_read"]
    /\ UNCHANGED <<store, maintenance_thread, now, frame, result, calls, peer_table, beside>>

\* lines 94-95, outside the lock: self.maintenance_thread is read; if there is
\* a thread, join it for at most 5 s, else return
StopRead(t) ==
    /\ pc[t] = "stop_read"
    /\ IF maintenance_thread # NoneId
       THEN /\ pc' = [pc EXCEPT ![t] = "stop_join"]
            /\ frame' = [frame EXCEPT ![t] =
                            [op |-> "stop", thread |-> maintenance_thread,
                             deadline |-> now + JoinTimeout]]
            /\ UNCHANGED result
       ELSE /\ pc' = [pc EXCEPT ![t] = "idle"]
            /\ frame' = [frame EXCEPT ![t] = NoFrame]
            /\ result' = [result EXCEPT ![t] = None]
    /\ UNCHANGED <<store, lock, running, maintenance_thread, now, calls, peer_table, beside>>

\* line 95 returns: the thread has ended, or the timeout has passed
StopJoined(t) ==
    /\ pc[t] = "stop_join"
    /\ pc[frame[t].thread] = "dead" \/ TimerExpired(frame[t].deadline)
    /\ pc' = [pc EXCEPT ![t] = "idle"]
    /\ frame' = [frame EXCEPT ![t] = NoFrame]
    /\ result' = [result EXCEPT ![t] = None]
    /\ UNCHANGED <<store, lock, running, maintenance_thread, now, calls, peer_table, beside>>

----------------------------------------------------------------------------
(* The maintenance thread: _maintenance_loop *)

\* line 230 had it been `while True`
LoopCheck_IgnoresFlag(m) ==
    /\ pc[m] = "loop"
    /\ pc' = [pc EXCEPT ![m] = "csr_enter"]
    /\ UNCHANGED <<store, lock, running, maintenance_thread, now, frame,
                   result, calls, peer_table, beside>>

\* line 230: while self.running (read without the lock)
LoopCheck(m) ==
    /\ pc[m] = "loop"
    /\ pc' = [pc EXCEPT ![m] = IF running THEN "csr_enter" ELSE "dead"]
    /\ UNCHANGED <<store, lock, running, maintenance_thread, now, frame,
                   result, calls, peer_table, beside>>

\* line 242: with self.lock
CleanupRoutesEnter(m) ==
    /\ pc[m] = "csr_enter"
    /\ lock = Free
    /\ lock' = m
    /\ pc' = [pc EXCEPT ![m] = "csr_scan"]
    /\ UNCHANGED <<store, running, maintenance_thread, now, frame, result, calls, peer_table, beside>>

\* line 247 had it used >=
StaleRoute_AtThreshold(route, current_time) ==
    current_time - route.last_updated >= route_update_interval * 3

\* line 247 had the threshold been four intervals
StaleRoute_FourIntervals(route, current_time) ==
    current_time - route.last_updated > route_update_interval * 4

\* line 247
StaleRoute(route, current_time) ==
    current_time - route.last_updated > route_update_interval * 3

\* lines 243-248: current_time is read and the stale destinations collected;
\* h_table remembers the table the pass started from (a history variable).
\* An entry whose last_updated cannot be read makes line 247 raise, before
\* anything is deleted.
CleanupRoutesScan(m) ==
    /\ pc[m] = "csr_scan"
    /\ IF Unreadable(routing_table) # {}
       THEN /\ frame' = [frame EXCEPT ![m] =
                            [op |-> "_cleanup_stale_routes", current_time |-> now]]
            /\ pc' = [pc EXCEPT ![m] = "csr_raise"]
       ELSE /\ frame' = [frame EXCEPT ![m] =
                            [op |-> "_cleanup_stale_routes", current_time |-> now,
                             stale_routes |-> {d \in DOMAIN routing_table :
                                                  StaleRoute(routing_table[d], now)},
                             h_table |-> routing_table]]
            /\ pc' = [pc EXCEPT ![m] = "csr_delete"]
    /\ UNCHANGED <<store, lock, running, maintenance_thread, now, result, calls, peer_table, beside>>

\* lines 250-252: del self.routing_table[destination] for each of them
CleanupRoutesDelete(m) ==
    /\ pc[m] = "csr_delete"
    /\ routing_table' = DictDel(routing_table, frame[m].stale_routes)
    /\ result' = Detached(frame[m].stale_routes)
    /\ pc' = [pc EXCEPT ![m] = "csr_exit"]
    /\ UNCHANGED <<nodes, neighbor_nodes, lock, running, maintenance_thread,
                   now, frame, calls, peer_table, beside>>

\* lines 236-238 had the exception not been caught: the thread ends
TickFailed_Fatal(m) ==
    /\ pc[m] = "csr_raise"
    /\ lock' = Free
    /\ frame' = [frame EXCEPT ![m] = NoFrame]
    /\ pc' = [pc EXCEPT ![m] = "dead"]
    /\ UNCHANGED <<store, running, maintenance_thread, now, result, calls, peer_table, beside>>

\* the exception leaves the with block of _cleanup_stale_routes (the lock is
\* released) and _cleanup_stale_nodes is not reached; lines 236-238: it is
\* caught and logged, and the thread sleeps 5 s before the next loop check
TickFailed(m) ==
    /\ pc[m] = "csr_raise"
    /\ lock' = Free
    /\ frame' = [frame EXCEPT ![m] =
                    [op |-> "backoff", wake |-> now + BackoffSeconds]]
    /\ pc' = [pc EXCEPT ![m] = "sleep"]
    /\ UNCHANGED <<store, running, maintenance_thread, now, result, calls, peer_table, beside>>

\* the with block of _cleanup_stale_routes ends
CleanupRoutesExit(m) ==
    /\ pc[m] = "csr_exit"
    /\ lock' = Free
    /\ frame' = [frame EXCEPT ![m] = NoFrame]
    /\ pc' = [pc EXCEPT ![m] = "csn_enter"]
    /\ UNCHANGED <<store, running, maintenance_thread, now, result, calls, peer_table, beside>>

\* line 256: with self.lock
CleanupNodesEnter(m) ==
    /\ pc[m] = "csn_enter"
    /\ lock = Free
    /\ lock' = m
    /\ pc' = [pc EXCEPT ![m] = "csn_scan"]
    /\ UNCHANGED <<store, running, maintenance_thread, now, frame, result, calls, peer_table, beside>>

\* line 261 had it used >=
StaleNode_AtThreshold(node, current_time) ==
    current_time - node.last_seen >= node_timeout

\* line 261
StaleNode(node, current_time) == current_time - node.last_seen > node_timeout

\* lines 257-262: current_time is read and the stale node ids collected;
\* h_nodes and h_neighbors remember what the pass started from
CleanupNodesScan(m) ==
    /\ pc[m] = "csn_scan"
    /\ LET stale == {id \in DOMAIN nodes : StaleNode(nodes[id], now)} IN
       /\ frame' = [frame EXCEPT ![m] =
                       [op |-> "_cleanup_stale_nodes", current_time |-> now,
                        stale_nodes |-> stale, node_id |-> NoneId,
                        h_nodes |-> nodes, h_neighbors |-> neighbor_nodes]]
       /\ pc' = [pc EXCEPT ![m] = IF stale = {} THEN "csn_exit" ELSE "csn_del"]
    /\ UNCHANGED <<store, lock, running, maintenance_thread, now, result, calls, peer_table, beside>>

\* lines 264-265: the loop takes a stale node id; del self.nodes[node_id]
CleanupNodesDel(m, node_id) ==
    /\ pc[m] = "csn_del"
    /\ node_id \in frame[m].stale_nodes
    /\ nodes' = DictDel(nodes, {node_id})
    /\ frame' = [frame EXCEPT ![m].node_id = node_id]
    /\ pc' = [pc EXCEPT ![m] = "csn_discard"]
    /\ UNCHANGED <<routing_table, neighbor_nodes, lock, running,
                   maintenance_thread, now, result, calls, peer_table, beside>>

\* the loop body had line 266 been left out
CleanupNodesDiscard_Forgotten(m) ==
    /\ pc[m] = "csn_discard"
    /\ LET left == frame[m].stale_nodes \ {frame[m].node_id} IN
       /\ frame' = [frame EXCEPT ![m].stale_nodes = left]
       /\ pc' = [pc EXCEPT ![m] = IF left = {} THEN "csn_exit" ELSE "csn_del"]
    /\ UNCHANGED <<store, lock, running, maintenance_thread, now, result, calls, peer_table, beside>>

\* line 266: self.neighbor_nodes.discard(node_id)
CleanupNodesDiscard(m) ==
    /\ pc[m] = "csn_discard"
    /\ neighbor_nodes' = neighbor_nodes \ {frame[m].node_id}
    /\ LET left == frame[m].stale_nodes \ {frame[m].node_id} IN
       /\ frame' = [frame EXCEPT ![m].stale_nodes = left]
       /\ pc' = [pc EXCEPT ![m] = IF left = {} THEN "csn_exit" ELSE "csn_del"]
    /\ UNCHANGED <<nodes, routing_table, lock, running, maintenance_thread,
                   now, result, calls, peer_table, beside>>

\* the with block of _cleanup_stale_nodes ends; line 234:
\* time.sleep(self.route_update_interval / 3)
CleanupNodesExit(m) ==
    /\ pc[m] = "csn_exit"
    /\ lock' = Free
    /\ frame' = [frame EXCEPT ![m] =
                    [op |-> "sleep", wake |-> now + route_update_interval \div 3]]
    /\ pc' = [pc EXCEPT ![m] = "sleep"]
    /\ UNCHANGED <<store, running, maintenance_thread, now, result, calls, peer_table, beside>>

\* the sleep is over: back to line 230
Wake(m) ==
    /\ pc[m] = "sleep"
    /\ TimerExpired(frame[m].wake)
    /\ frame' = [frame EXCEPT ![m] = NoFrame]
    /\ pc' = [pc EXCEPT ![m] = "loop"]
    /\ UNCHANGED <<store, lock, running, maintenance_thread, now, result, calls, peer_table, beside>>

----------------------------------------------------------------------------
(* Time, and the specification of the engine *)

\* The clock moves in steps of a minute and more, and a critical section is a
\* few dictionary operations: the clock does not move while the lock is held.
AdvanceTime(d) ==
    /\ lock = Free
    /\ now + d <= MaxTime
    /\ now' = now + d
    /\ UNCHANGED <<store, lock, running, maintenance_thread, pc, frame,
                   result, calls, peer_table, beside>>

Next ==
    \/ \E t \in Threads :
        \/ \E c \in Callsigns, id \in AllIds, s \in Signals :
              AddNeighborEnter(t, c, id, s)
        \/ AddNeighborNode(t)
        \/ AddNeighborIndex(t)
        \/ AddNeighborRoute(t)
        \/ \E from_node \in AnnSources, n \in 0..MaxBatch :
              ProcessEnter(t, from_node, n)
        \/ \E a \in Announcements : ProcessNext(t, a)
        \/ ProcessBody(t)
        \/ ProcessRaise(t)
        \/ ProcessReturn(t)
        \/ \E op \in {"find_route", "get_next_hop"}, d \in QueryDests :
              FindRouteEnter(t, op, d)
        \/ FindRouteReturn(t)
        \/ GetNextHopRead(t)
        \/ GetRouteAnnouncementsEnter(t)
        \/ GetRouteAnnouncementsReturn(t)
        \/ StartEnter(t)
        \/ StartBody(t)
        \/ StopEnter(t)
        \/ StopBody(t)
        \/ StopRead(t)
        \/ StopJoined(t)
    \/ \E m \in MaintIds :
        \/ LoopCheck(m)
        \/ CleanupRoutesEnter(m)
        \/ CleanupRoutesScan(m)
        \/ CleanupRoutesDelete(m)
        \/ CleanupRoutesExit(m)
        \/ CleanupNodesEnter(m)
        \/ CleanupNodesScan(m)
        \/ \E id \in AllIds : CleanupNodesDel(m, id)
        \/ CleanupNodesDiscard(m)
        \/ CleanupNodesExit(m)
        \/ Wake(m)
    \/ \E d \in Deltas : AdvanceTime(d)

Spec == Init /\ [][Next]_vars

----------------------------------------------------------------------------
(* Scheduling *)

\* a step of an operation a caller has begun
CallerStep(t) ==
    \/ AddNeighborNode(t)
    \/ AddNeighborIndex(t)
    \/ AddNeighborRoute(t)
    \/ \E a \in Announcements : ProcessNext(t, a)
    \/ ProcessBody(t)
    \/ ProcessRaise(t)
    \/ ProcessReturn(t)
    \/ FindRouteReturn(t)
    \/ GetNextHopRead(t)
    \/ GetRouteAnnouncementsReturn(t)
    \/ StartBody(t)
    \/ StopBody(t)
    \/ StopRead(t)
    \/ StopJoined(t)

\* a step of a maintenance thread
MaintStep(m) ==
    \/ LoopCheck(m)
    \/ CleanupRoutesEnter(m)
    \/ CleanupRoutesScan(m)
    \/ CleanupRoutesDelete(m)
    \/ CleanupRoutesExit(m)
    \/ CleanupNodesEnter(m)
    \/ CleanupNodesScan(m)
    \/ \E id \in AllIds : CleanupNodesDel(m, id)
    \/ CleanupNodesDiscard(m)
    \/ CleanupNodesExit(m)
    \/ Wake(m)

(* The interpreter keeps running every thread that can run, so an operation *)
(* that was begun is carried on, and the clock keeps advancing.  A thread   *)
(* waiting for the lock gets it in the end: every holder releases it after  *)
(* a few dictionary operations and the maintenance threads sleep for        *)
(* seconds between two acquisitions; hence strong fairness for the          *)
(* maintenance threads, whose next step may be an acquisition.              *)
Fairness ==
    /\ \A t \in Threads : WF_vars(CallerStep(t))
    /\ \A m \in MaintIds : SF_vars(MaintStep(m))
    /\ WF_vars(\E d \in Deltas : AdvanceTime(d))

\* The engine under fair scheduling.  What the callers hand in matters to the
\* scheduler only through the lock it takes, so each operation is called with
\* one or two inputs: a neighbor, an announcement that is installed and one
\* that raises, a destination.
LiveAnnouncements ==
    {[destination |-> "node-B", hop_count |-> 1, signal_strength |-> 100],
     [destination |-> "node-B", signal_strength |-> 100]}

NextLive ==
    \/ \E t \in Threads :
        \/ AddNeighborEnter(t, "REL-1", "node-A", 50)
        \/ AddNeighborNode(t)
        \/ AddNeighborIndex(t)
        \/ AddNeighborRoute(t)
        \/ \E n \in 0..MaxBatch : ProcessEnter(t, "node-A", n)
        \/ \E a \in LiveAnnouncements : ProcessNext(t, a)
        \/ ProcessBody(t)
        \/ ProcessRaise(t)
        \/ ProcessReturn(t)
        \/ \E op \in {"find_route", "get_next_hop"} : FindRouteEnter(t, op, "node-A")
        \/ FindRouteReturn(t)
        \/ GetNextHopRead(t)
        \/ GetRouteAnnouncementsEnter(t)
        \/ GetRouteAnnouncementsReturn(t)
        \/ StartEnter(t)
        \/ StartBody(t)
        \/ StopEnter(t)
        \/ StopBody(t)
        \/ StopRead(t)
        \/ StopJoined(t)
    \/ \E m \in MaintIds : MaintStep(m)
    \/ \E d \in Deltas : AdvanceTime(d)

LiveSpec == Init /\ [][NextLive]_vars /\ Fairness

\* The state after start() on a fresh engine, the maintenance thread not yet
\* at its first loop check; the callers' inputs are counted from here.
InitRunning ==
    /\ nodes = EmptyDict
    /\ routing_table = EmptyDict
    /\ neighbor_nodes = {}
    /\ lock = Free
    /\ running = TRUE
    /\ maintenance_thread = "m1"
    /\ now = 0
    /\ pc = [t \in AllThreads |->
                IF t \in Threads THEN "idle"
                ELSE IF t = "m1" THEN "loop" ELSE "unborn"]
    /\ frame = [t \in AllThreads |-> NoFrame]
    /\ result = [t \in Threads |-> None]
    /\ calls = 0
    /\ InitBeside
    /\ peer_table = EmptyDict

\* the engine once started, under fair scheduling
SpecRunning == InitRunning /\ [][NextLive]_vars /\ Fairness

----------------------------------------------------------------------------
(* A caller that writes to what find_route returned *)

\* the attribute assignments a caller makes on a RouteInfo it was handed
Writes == {[field |-> "hop_count", value |-> 9],
           [field |-> "metric", value |-> 1]}

WriteField(obj, w) == [obj EXCEPT ![w.field] = w.value]

\* route = mesh.find_route(d); route.<field> = value.  The object is the one
\* line 169 returned: while the table still holds it, the table's entry changes.
Mutate(t, w) ==
    /\ pc[t] = "idle"
    /\ IsRef(result[t])
    /\ IF result[t].live
       THEN /\ routing_table' = [routing_table EXCEPT
                                    ![result[t].dest] = WriteField(@, w)]
            /\ UNCHANGED result
       ELSE /\ result' = [result EXCEPT ![t].obj = WriteField(@, w)]
            /\ UNCHANGED routing_table
    /\ UNCHANGED <<nodes, neighbor_nodes, lock, running, maintenance_thread,
                   now, pc, frame, calls, peer_table, beside>>

NextLeak == Next \/ \E t \in Threads, w \in Writes : Mutate(t, w)

\* the engine together with callers that write to the objects they were handed
SpecLeak == Init /\ [][NextLeak]_vars

----------------------------------------------------------------------------
(* A maintenance tick that raises *)

(* Nothing the engine itself stores makes a tick raise: last_updated and     *)
(* last_seen are always what time.time() returned.  A tick raises when a     *)
(* caller has damaged an entry through the object find_route handed out.     *)

\* route = mesh.find_route(d); del route.last_updated
DeleteField(t) ==
    /\ pc[t] = "idle"
    /\ IsRef(result[t])
    /\ HasAttr(Deref(result[t]), "last_updated")
    /\ LET strip(obj) == [x \in DOMAIN obj \ {"last_updated"} |-> obj[x]] IN
       IF result[t].live
       THEN /\ routing_table' = [routing_table EXCEPT
                                    ![result[t].dest] = strip(@)]
            /\ UNCHANGED result
       ELSE /\ result' = [result EXCEPT ![t].obj = strip(@)]
            /\ UNCHANGED routing_table
    /\ UNCHANGED <<nodes, neighbor_nodes, lock, running, maintenance_thread,
                   now, pc, frame, calls, peer_table, beside>>

\* The state after add_neighbor("REL-1", "node-A", 0.5), start() and
\* route = find_route("node-A") in thread t1, all at time 0, with the
\* maintenance thread not yet at its first loop check.  Of the inputs the
\* callers may hand in, one is left.
InitFault ==
    /\ nodes = DictPut(EmptyDict, "node-A", MeshNode("REL-1", "node-A", 0, 1, 50))
    /\ routing_table =
          DictPut(EmptyDict, "node-A",
                  RouteInfo("node-A", "node-A", 1, CalculateMetric(50, 1), 0,
                            EstimateBandwidth(50)))
    /\ neighbor_nodes = {"node-A"}
    /\ lock = Free
    /\ running = TRUE
    /\ maintenance_thread = "m1"
    /\ now = 0
    /\ pc = [t \in AllThreads |->
                IF t \in Threads THEN "idle"
                ELSE IF t = "m1" THEN "loop" ELSE "unborn"]
    /\ frame = [t \in AllThreads |-> NoFrame]
    /\ result = [t \in Threads |-> IF t = "t1" THEN LiveRef("node-A") ELSE None]
    /\ calls = MaxCalls - 1
    /\ InitBeside
    /\ peer_table = EmptyDict

NextFault ==
    \/ NextLeak
    \/ \E t \in Threads : DeleteField(t)
    \/ \E m \in MaintIds : TickFailed(m)

\* the exception handler is a step of the maintenance thread like any other
FaultFairness ==
    /\ \A t \in Threads : WF_vars(CallerStep(t))
    /\ \A m \in MaintIds : SF_vars(MaintStep(m) \/ TickFailed(m))
    /\ WF_vars(\E d \in Deltas : AdvanceTime(d))

SpecFault == InitFault /\ [][NextFault]_vars /\ FaultFairness

----------------------------------------------------------------------------
(* process_route_announcement called with a list given in advance *)

\* the lists of at most MaxList elements of S
Lists(S) == UNION {[1..n -> S] : n \in 0..MaxList}

\* a caller about to call process_route_announcement(from_node, routes)
PendingCall(from_node, routes) ==
    [op |-> "process_route_announcement", from_node |-> from_node,
     current_time |-> 0, left |-> 0, route_data |-> None,
     existing_route |-> None, routes |-> routes]

\* lines 129-130: the lock is taken and current_time read once for the batch
ListEnter(t) ==
    /\ pc[t] = "pra_call"
    /\ lock = Free
    /\ lock' = t
    /\ pc' = [pc EXCEPT ![t] = "pra_loop"]
    /\ frame' = [frame EXCEPT ![t].current_time = now,
                              ![t].left = Len(frame[t].routes)]
    /\ UNCHANGED <<store, running, maintenance_thread, now, result, calls, peer_table, beside>>

\* line 132: the for loop takes the next dict of the list, in list order
ListNext(t) ==
    /\ pc[t] = "pra_loop"
    /\ frame[t].left > 0
    /\ frame' = [frame EXCEPT
                    ![t].route_data =
                        frame[t].routes[Len(frame[t].routes) - frame[t].left + 1],
                    ![t].left = @ - 1]
    /\ pc' = [pc EXCEPT ![t] = "pra_body"]
    /\ UNCHANGED <<store, lock, running, maintenance_thread, now, result, calls, peer_table, beside>>

\* the list is exhausted: the with block ends, the call returns None; the
\* caller keeps the list it passed
ListReturn(t) ==
    /\ pc[t] = "pra_loop"
    /\ frame[t].left = 0
    /\ lock' = Free
    /\ pc' = [pc EXCEPT ![t] = "pra_done"]
    /\ result' = [result EXCEPT ![t] = None]
    /\ UNCHANGED <<store, running, maintenance_thread, now, frame, calls, peer_table, beside>>

\* announcements for one destination: classes and hop counts (2,2), (2,3),
\* (3,1), (4,2), and one over the hop limit
OrderCandidates ==
    {[destination |-> "node-B", hop_count |-> 1, signal_strength |-> 100],
     [destination |-> "node-B", hop_count |-> 2, signal_strength |-> 100],
     [destination |-> "node-B", hop_count |-> 0, signal_strength |-> 50],
     [destination |-> "node-B", hop_count |-> 1, signal_strength |-> 50],
     [destination |-> "node-B", hop_count |-> 5, signal_strength |-> 100]}

\* a fresh engine, and two callers each about to hand in a list of
\* announcements for the same destination
InitOrder ==
    /\ nodes = EmptyDict
    /\ routing_table = EmptyDict
    /\ neighbor_nodes = {}
    /\ lock = Free
    /\ running = FALSE
    /\ maintenance_thread = NoneId
    /\ now = 0
    /\ pc = [t \in AllThreads |-> IF t \in Threads THEN "pra_call" ELSE "unborn"]
    /\ \E l1 \in Lists(OrderCandidates), l2 \in Lists(OrderCandidates) :
          frame = [t \in AllThreads |->
                      IF t = "t1" THEN PendingCall("node-A", l1)
                      ELSE IF t = "t2" THEN PendingCall("node-A", l2)
                      ELSE NoFrame]
    /\ result = [t \in Threads |-> None]
    /\ calls = 0
    /\ InitBeside
    /\ peer_table = EmptyDict

NextOrder ==
    \E t \in Threads :
        \/ ListEnter(t)
        \/ ListNext(t)
        \/ ProcessBody(t)
        \/ ListReturn(t)

SpecOrder == InitOrder /\ [][NextOrder]_vars

----------------------------------------------------------------------------
(* A neighbor that keeps announcing the same route *)

\* what node-A announces, every route_update_interval
Repeated == [destination |-> "node-B", hop_count |-> 1, signal_strength |-> 100]

\* the engine has been started, and a caller is about to hand in node-A's
\* announcement for the first time
InitRefresh ==
    /\ nodes = EmptyDict
    /\ routing_table = EmptyDict
    /\ neighbor_nodes = {}
    /\ lock = Free
    /\ running = TRUE
    /\ maintenance_thread = "m1"
    /\ now = 0
    /\ pc = [t \in AllThreads |->
                IF t = "t1" THEN "pra_call"
                ELSE IF t \in Threads THEN "idle"
                ELSE IF t = "m1" THEN "loop" ELSE "unborn"]
    /\ frame = [t \in AllThreads |->
                  IF t = "t1" THEN PendingCall("node-A", <<Repeated>>) ELSE NoFrame]
    /\ result = [t \in Threads |-> None]
    /\ calls = 0
    /\ InitBeside
    /\ peer_table = EmptyDict

\* route_update_interval passes after an announcement was processed, and
\* node-A's next announcement, the same as the last, has arrived
NextAnnouncementDue(t) ==
    /\ pc[t] = "pra_done"
    /\ lock = Free
    /\ now + route_update_interval <= MaxTime
    /\ now' = now + route_update_interval
    /\ pc' = [pc EXCEPT ![t] = "pra_call"]
    /\ UNCHANGED <<store, lock, running, maintenance_thread, frame, result, calls, peer_table, beside>>

NextRefresh ==
    \/ \E t \in Threads :
        \/ ListEnter(t)
        \/ ListNext(t)
        \/ ProcessBody(t)
        \/ ListReturn(t)
        \/ NextAnnouncementDue(t)
        \/ GetRouteAnnouncementsEnter(t)
        \/ GetRouteAnnouncementsReturn(t)
    \* the node table stays empty: the node pass finds nothing to delete
    \/ \E m \in MaintIds :
        \/ LoopCheck(m)
        \/ CleanupRoutesEnter(m)
        \/ CleanupRoutesScan(m)
        \/ CleanupRoutesDelete(m)
        \/ CleanupRoutesExit(m)
        \/ CleanupNodesEnter(m)
        \/ CleanupNodesScan(m)
        \/ CleanupNodesExit(m)
        \/ Wake(m)

SpecRefresh == InitRefresh /\ [][NextRefresh]_vars

----------------------------------------------------------------------------
(* A neighbor that is heard only through its announcements *)

\* the engine has been started and node-A added as a neighbor, both at time
\* 0; a caller is about to hand in node-A's announcement for the first time.
\* One more input (an add_neighbor that observes node-A again) is left.
InitContact ==
    /\ nodes = [id \in {"node-A"} |-> MeshNode("REL-1", id, 0, 1, 100)]
    /\ routing_table =
          [id \in {"node-A"} |->
              RouteInfo(id, id, 1, CalculateMetric(100, 1), 0,
                        EstimateBandwidth(100))]
    /\ neighbor_nodes = {"node-A"}
    /\ lock = Free
    /\ running = TRUE
    /\ maintenance_thread = "m1"
    /\ now = 0
    /\ pc = [t \in AllThreads |->
                IF t = "t1" THEN "pra_call"
                ELSE IF t \in Threads THEN "idle"
                ELSE IF t = "m1" THEN "loop" ELSE "unborn"]
    /\ frame = [t \in AllThreads |->
                  IF t = "t1" THEN PendingCall("node-A", <<Repeated>>) ELSE NoFrame]
    /\ result = [t \in Threads |-> None]
    /\ calls = MaxCalls - 1
    /\ InitBeside
    /\ peer_table = EmptyDict

\* a step of an operation a caller has begun, or of the call it is about to make
ContactStep(t) ==
    \/ ListEnter(t)
    \/ ListNext(t)
    \/ ProcessBody(t)
    \/ ListReturn(t)
    \/ AddNeighborNode(t)
    \/ AddNeighborIndex(t)
    \/ AddNeighborRoute(t)

NextContact ==
    \/ \E t \in Threads :
        \/ ContactStep(t)
        \/ NextAnnouncementDue(t)
        \/ AddNeighborEnter(t, "REL-1", "node-A", 100)
    \/ \E m \in MaintIds : MaintStep(m)
    \/ \E d \in Deltas : AdvanceTime(d)

\* as Fairness, for the steps of NextContact
ContactFairness ==
    /\ \A t \in Threads : WF_vars(ContactStep(t))
    /\ \A m \in MaintIds : SF_vars(MaintStep(m))
    /\ WF_vars(\E d \in Deltas : AdvanceTime(d))

SpecContact == InitContact /\ [][NextContact]_vars /\ ContactFairness

----------------------------------------------------------------------------
(* get_mesh_status *)

\* the sum of the values of a dict of counts
RECURSIVE SumValues(_)
SumValues(d) ==
    IF DOMAIN d = {} THEN 0
    ELSE LET k == CHOOSE x \in DOMAIN d : TRUE
         IN d[k] + SumValues(DictDel(d, {k}))

\* lines 203-204: the nodes with current_time - node.last_seen < node_timeout
ActiveNodes(table, current_time) ==
    Cardinality({id \in DOMAIN table :
                    current_time - table[id].last_seen < node_timeout})

\* lines 207-210: routes counted by metric; a class no route has gets no key
\* (the key is the class's value here, its name in the code)
RouteMetrics(table) ==
    [m \in {table[d].metric : d \in DOMAIN table} |->
        Cardinality({d \in DOMAIN table : table[d].metric = m})]

\* the status had it been put together without taking the lock
GetMeshStatusEnter_NoLock(t) ==
    /\ pc[t] = "idle"
    /\ calls + 1 <= MaxCalls
    /\ calls' = calls + 1
    /\ pc' = [pc EXCEPT ![t] = "gms_count"]
    /\ frame' = [frame EXCEPT ![t] =
                    [op |-> "get_mesh_status", current_time |-> now,
                     active_nodes |-> 0, route_metrics |-> EmptyDict]]
    /\ UNCHANGED <<store, lock, running, maintenance_thread, now, result,
                   peer_table, beside>>

\* lines 199-200: the lock is taken and current_time read
GetMeshStatusEnter(t) ==
    /\ Enter(t, "gms_count", [op |-> "get_mesh_status", current_time |-> now,
                              active_nodes |-> 0, route_metrics |-> EmptyDict], 1)
    /\ UNCHANGED <<store, running, maintenance_thread, now, result>>

\* lines 203-210: the active nodes and the routes per metric are counted
GetMeshStatusCount(t) ==
    /\ pc[t] = "gms_count"
    /\ frame' = [frame EXCEPT
                    ![t].active_nodes = ActiveNodes(nodes, frame[t].current_time),
                    ![t].route_metrics = RouteMetrics(routing_table)]
    /\ pc' = [pc EXCEPT ![t] = "gms_return"]
    /\ UNCHANGED <<store, lock, running, maintenance_thread, now, result,
                   calls, peer_table, beside>>

\* lines 212-226: the dict is built from the counts and the sizes of the
\* three collections as they are now (local_node, the same in every result,
\* is left out); the with block ends
GetMeshStatusReturn(t) ==
    /\ pc[t] = "gms_return"
    /\ result' = [result EXCEPT ![t] =
                    [kind |-> "status",
                     total_nodes |-> Cardinality(DOMAIN nodes),
                     active_nodes |-> frame[t].active_nodes,
                     neighbor_count |-> Cardinality(neighbor_nodes),
                     route_count |-> Cardinality(DOMAIN routing_table),
                     route_metrics |-> frame[t].route_metrics,
                     running |-> running,
                     timestamp |-> frame[t].current_time]]
    /\ Leave(t)
    /\ UNCHANGED <<store, running, maintenance_thread, now, calls, peer_table, beside>>

\* the engine has been started and node-A added as a neighbor, both at time
\* 0; the callers' inputs are counted from here
InitStatus ==
    /\ nodes = [id \in {"node-A"} |-> MeshNode("REL-1", id, 0, 1, 50)]
    /\ routing_table =
          [id \in {"node-A"} |->
              RouteInfo(id, id, 1, CalculateMetric(50, 1), 0,
                        EstimateBandwidth(50))]
    /\ neighbor_nodes = {"node-A"}
    /\ lock = Free
    /\ running = TRUE
    /\ maintenance_thread = "m1"
    /\ now = 0
    /\ pc = [t \in AllThreads |->
                IF t \in Threads THEN "idle"
                ELSE IF t = "m1" THEN "loop" ELSE "unborn"]
    /\ frame = [t \in AllThreads |-> NoFrame]
    /\ result = [t \in Threads |-> None]
    /\ calls = 0
    /\ InitBeside
    /\ peer_table = EmptyDict

\* the engine with its writers, its maintenance thread and status readers
NextStatus ==
    \/ \E t \in Threads :
        \/ GetMeshStatusEnter(t)
        \/ GetMeshStatusCount(t)
        \/ GetMeshStatusReturn(t)
        \/ AddNeighborEnter(t, "REL-1", "node-A", 50)
        \/ AddNeighborNode(t)
        \/ AddNeighborIndex(t)
        \/ AddNeighborRoute(t)
        \/ \E n \in 0..MaxBatch : ProcessEnter(t, "node-A", n)
        \/ \E a \in LiveAnnouncements : ProcessNext(t, a)
        \/ ProcessBody(t)
        \/ ProcessRaise(t)
        \/ ProcessReturn(t)
    \/ \E m \in MaintIds : MaintStep(m)
    \/ \E d \in Deltas : AdvanceTime(d)

SpecStatus == InitStatus /\ [][NextStatus]_vars

----------------------------------------------------------------------------
(* Two engines that exchange their announcements *)

(* The engine modelled by the variables above is "local".  A second engine,  *)
(* node-B, runs the same code with its own node id; only its routing_table   *)
(* matters here (peer_table), and each of its operations, being the only one *)
(* running in that engine, is taken as one step.                             *)
peer_node_id == "node-B"

\* lines 137-142 in the second engine: self.local_node_id is node-B
PeerSkipped(route_data) ==
    \/ TooManyHops(route_data.hop_count + 1)
    \/ route_data.destination = peer_node_id

\* lines 132-161 in the second engine: the announcements of routes that are
\* installed.  The announcements come from get_route_announcements, so their
\* destinations are distinct and each is judged against the entry the table
\* held before the call.
PeerInstalled(table, routes) ==
    {a \in routes : /\ ~RaisesKeyError(a)
                    /\ ~PeerSkipped(a)
                    /\ Wins(a, DictGet(table, a.destination))}

\* lines 127-164 in the second engine: its table after
\* process_route_announcement(from_node, routes) at current_time
PeerProcess(table, from_node, routes, current_time) ==
    LET won == PeerInstalled(table, routes) IN
    [d \in DOMAIN table \cup {a.destination : a \in won} |->
        IF \E a \in won : a.destination = d
        THEN NewRoute(CHOOSE a \in won : a.destination = d, from_node,
                      current_time)
        ELSE table[d]]

\* lines 176-195 in the second engine: the announcements it returns
PeerAnnouncements(table, current_time) ==
    {Announcement(d, table[d]) :
        d \in {x \in DOMAIN table : ~TooOldToAnnounce(table[x], current_time)}}

\* the lists that hold each element of the set S once
Orderings(S) ==
    {l \in [1..Cardinality(S) -> S] : \A x \in S : \E i \in DOMAIN l : l[i] = x}

\* a caller hands the list get_route_announcements() of "local" returned to
\* it to node-B: node-B.process_route_announcement("local", list)
Relay(t) ==
    /\ pc[t] = "idle"
    /\ result[t].kind = "list"
    /\ peer_table' = PeerProcess(peer_table, local_node_id, result[t].value, now)
    /\ pc' = [pc EXCEPT ![t] = "relayed"]
    /\ UNCHANGED <<store, lock, running, maintenance_thread, now, frame,
                   result, calls, beside>>

\* the caller takes node-B.get_route_announcements() and is about to call
\* process_route_announcement("node-B", list) of "local" with it
PeerAnnounce(t) ==
    /\ pc[t] = "relayed"
    /\ \E routes \in Orderings(PeerAnnouncements(peer_table, now)) :
          frame' = [frame EXCEPT ![t] = PendingCall(peer_node_id, routes)]
    /\ pc' = [pc EXCEPT ![t] = "pra_call"]
    /\ UNCHANGED <<store, lock, running, maintenance_thread, now, result,
                   calls, peer_table, beside>>

\* the two engines are neighbors of each other, and "local" has a third
\* neighbor, node-A: the state after add_neighbor("REL-1", "node-A", s) and
\* add_neighbor("REL-1", "node-B", 1.0) in "local" and
\* add_neighbor("REL-1", "local", 1.0) in node-B, all at time 0
InitNet ==
    /\ \E s \in Signals :
          /\ nodes = [id \in NodeIds |->
                        MeshNode("REL-1", id, 0, 1,
                                 IF id = "node-A" THEN s ELSE 100)]
          /\ routing_table =
                [id \in NodeIds |->
                    LET g == IF id = "node-A" THEN s ELSE 100 IN
                    RouteInfo(id, id, 1, CalculateMetric(g, 1), 0,
                              EstimateBandwidth(g))]
    /\ neighbor_nodes = NodeIds
    /\ lock = Free
    /\ running = FALSE
    /\ maintenance_thread = NoneId
    /\ now = 0
    /\ pc = [t \in AllThreads |-> IF t \in Threads THEN "idle" ELSE "unborn"]
    /\ frame = [t \in AllThreads |-> NoFrame]
    /\ result = [t \in Threads |-> None]
    /\ calls = 0
    /\ InitBeside
    /\ peer_table =
          [id \in {local_node_id} |->
              RouteInfo(id, id, 1, CalculateMetric(100, 1), 0,
                        EstimateBandwidth(100))]

NextNet ==
    \/ \E t \in Threads :
        \/ GetRouteAnnouncementsEnter(t)
        \/ GetRouteAnnouncementsReturn(t)
        \/ Relay(t)
        \/ PeerAnnounce(t)
        \/ ListEnter(t)
        \/ ListNext(t)
        \/ ProcessBody(t)
        \/ ListReturn(t)
    \/ \E d \in Deltas : AdvanceTime(d)

SpecNet == InitNet /\ [][NextNet]_vars

----------------------------------------------------------------------------
(* The metric function on its own *)

\* a caller is about to apply _calculate_metric to some signal and hop count
InitMetric ==
    /\ nodes = EmptyDict
    /\ routing_table = EmptyDict
    /\ neighbor_nodes = {}
    /\ lock = Free
    /\ running = FALSE
    /\ maintenance_thread = NoneId
    /\ now = 0
    /\ pc = [t \in AllThreads |->
                IF t = "t1" THEN "cm_call"
                ELSE IF t \in Threads THEN "idle" ELSE "unborn"]
    /\ \E s \in 0..MaxSignal, h \in 1..MaxHops :
          frame = [t \in AllThreads |->
                      IF t = "t1"
                      THEN [op |-> "_calculate_metric", signal_strength |-> s,
                            hop_count |-> h]
                      ELSE NoFrame]
    /\ result = [t \in Threads |-> None]
    /\ calls = 0
    /\ InitBeside
    /\ peer_table = EmptyDict

\* lines 269-283: the call returns the class; the caller keeps its arguments
CalculateMetricReturn(t) ==
    /\ pc[t] = "cm_call"
    /\ result' = [result EXCEPT ![t] =
                    [kind |-> "value",
                     value |-> CalculateMetric(frame[t].signal_strength,
                                               frame[t].hop_count)]]
    /\ pc' = [pc EXCEPT ![t] = "cm_done"]
    /\ UNCHANGED <<store, lock, running, maintenance_thread, now, frame, calls, peer_table, beside>>

NextMetric == \E t \in Threads : CalculateMetricReturn(t)

SpecMetric == InitMetric /\ [][NextMetric]_vars

----------------------------------------------------------------------------
(* MeshServices (src/network/mesh_services.py) *)

\* the variables of the routing engine
engine == <<store, lock, running, maintenance_thread, now, pc, frame, result,
            calls, peer_table>>

\* the destination paths are added for, and one that never gets a path
Dests == {"X"}
UnknownDests == {"Y"}
\* a path is a list of node names
PathValues == {<<"A", "B">>, <<"C", "D">>, <<"E">>}

\* a value a call returned, as opposed to None
Returned(v) == [kind |-> "value", value |-> v]

\* self.paths[dest], or the empty list where the code finds no key
PathsOf(obj, dest) == IF dest \in DOMAIN obj.paths THEN obj.paths[dest] ELSE <<>>

\* lines 9-12: add_path(dest, path)
AddPath(dest, path) ==
    /\ Len(PathsOf(services, dest)) < MaxPaths
    /\ services' = [services EXCEPT
                      !.paths = DictPut(@, dest,
                                        Append(PathsOf(services, dest), path))]
    /\ history' = [last |-> [op |-> "add_path", dest |-> dest, value |-> None],
                   added |-> DictPut(history.added, dest,
                                     Append(DictGetSeq(history.added, dest), path)),
                   handed |-> DictPut(history.handed, dest, <<>>)]
    /\ UNCHANGED <<engine, tdma>>

\* lines 14-17: get_primary(dest)
GetPrimary(dest) ==
    /\ history' = [history EXCEPT
                      !.last = [op |-> "get_primary", dest |-> dest,
                                value |-> IF PathsOf(services, dest) # <<>>
                                          THEN Returned(services.paths[dest][1])
                                          ELSE None]]
    /\ UNCHANGED <<engine, services, tdma>>

\* lines 19-22: get_backups(dest), self.paths[dest][1:4]
GetBackups(dest) ==
    /\ history' = [history EXCEPT
                      !.last = [op |-> "get_backups", dest |-> dest,
                                value |->
                                  LET l == PathsOf(services, dest) IN
                                  Returned(SubSeq(l, 2, IF Len(l) < 4
                                                        THEN Len(l) ELSE 4))]]
    /\ UNCHANGED <<engine, services, tdma>>

\* lines 24-30: load_balance(dest): the first path is popped, appended at the
\* end and returned
LoadBalance(dest) ==
    /\ LET l == PathsOf(services, dest)
           h == DictGetSeq(history.handed, dest)
       IN IF l # <<>>
          THEN /\ services' = [services EXCEPT
                                  !.paths = DictPut(@, dest,
                                                    Append(Tail(l), Head(l)))]
               /\ history' = [history EXCEPT
                                 !.last = [op |-> "load_balance", dest |-> dest,
                                           value |-> Returned(Head(l))],
                                 !.handed = DictPut(@, dest,
                                                    IF Len(h) >= Len(l)
                                                    THEN <<Head(l)>>
                                                    ELSE Append(h, Head(l)))]
          ELSE /\ UNCHANGED services
               /\ history' = [history EXCEPT
                                 !.last = [op |-> "load_balance", dest |-> dest,
                                           value |-> None]]
    /\ UNCHANGED <<engine, tdma>>

NextServices ==
    \/ \E dest \in Dests, path \in PathValues : AddPath(dest, path)
    \/ \E dest \in Dests \cup UnknownDests :
        \/ GetPrimary(dest)
        \/ GetBackups(dest)
        \/ LoadBalance(dest)

SpecServices == Init /\ [][NextServices]_vars

----------------------------------------------------------------------------
(* SimpleTDMA and DynamicTDMA (src/mac/tdma_simple.py, tdma_dynamic.py) *)

\* node ids and QoS classes handed to request_slot and release_slot
TdmaNodes == {"A", "B", "C"}
QosClasses == {0, 1, 2}

\* an entry of DynamicTDMA.qos that is not None
Qos(qos_class) == [kind |-> "int", value |-> qos_class]

\* the indexes i with self.slots[i] is None
FreeSlots(obj) == {i \in DOMAIN obj.slots : obj.slots[i] = NoneId}

\* the for loop had it run from the last slot down
FirstFree_FromTheEnd(obj) ==
    CHOOSE i \in FreeSlots(obj) : \A j \in FreeSlots(obj) : i >= j

\* the first i in range(num_slots) with self.slots[i] is None
FirstFree(obj) ==
    CHOOSE i \in FreeSlots(obj) : \A j \in FreeSlots(obj) : i <= j

\* the indexes i with self.slots[i] == node_id
HeldBy(obj, node_id) == {i \in DOMAIN obj.slots : obj.slots[i] = node_id}

\* tdma_dynamic.py line 19: max(self.qos), for a list without None
MaxQos(obj) ==
    CHOOSE q \in {obj.qos[i].value : i \in DOMAIN obj.qos} :
        \A i \in DOMAIN obj.qos : obj.qos[i].value <= q

\* a call of request_slot or release_slot as history remembers it; freed is
\* the index release_slot set to None (-1 if none)
TdmaCall(op, node_id, qos_class, value, freed) ==
    [op |-> op, node_id |-> node_id, qos_class |-> qos_class, value |-> value,
     freed |-> freed]

\* tdma_simple.py lines 11-17: request_slot(node_id)
RequestSlotSimple(node_id) ==
    /\ tdma.class = "SimpleTDMA"
    /\ IF FreeSlots(tdma) # {}
       THEN LET i == FirstFree(tdma) IN
            /\ tdma' = [tdma EXCEPT !.slots[i] = node_id]
            /\ history' = [history EXCEPT
                              !.last = TdmaCall("request_slot", node_id, None,
                                                i, -1)]
       ELSE /\ UNCHANGED tdma
            /\ history' = [history EXCEPT
                              !.last = TdmaCall("request_slot", node_id, None,
                                                -1, -1)]
    /\ UNCHANGED <<engine, services>>

\* tdma_dynamic.py lines 11-25: request_slot(node_id, qos_class).  With every
\* slot taken, max(self.qos) raises TypeError if the list holds a None.
RequestSlotDynamic(node_id, qos_class) ==
    /\ tdma.class = "DynamicTDMA"
    /\ IF FreeSlots(tdma) # {}
       THEN LET i == FirstFree(tdma) IN
            /\ tdma' = [tdma EXCEPT !.slots[i] = node_id,
                                    !.qos[i] = Qos(qos_class)]
            /\ history' = [history EXCEPT
                              !.last = TdmaCall("request_slot", node_id,
                                                Qos(qos_class), i, -1)]
       ELSE IF \E i \in DOMAIN tdma.qos : tdma.qos[i] = None
       THEN /\ UNCHANGED tdma
            /\ history' = [history EXCEPT
                              !.last = [op |-> "request_slot",
                                        raised |-> "TypeError"]]
       ELSE LET min_qos == MaxQos(tdma) IN
            IF qos_class < min_qos
            THEN LET idx == CHOOSE i \in DOMAIN tdma.qos :
                               /\ tdma.qos[i].value = min_qos
                               /\ \A j \in DOMAIN tdma.qos :
                                     tdma.qos[j].value = min_qos => i <= j
                 IN /\ tdma' = [tdma EXCEPT !.slots[idx] = node_id,
                                            !.qos[idx] = Qos(qos_class)]
                    /\ history' = [history EXCEPT
                                      !.last = TdmaCall("request_slot", node_id,
                                                        Qos(qos_class), idx, -1)]
            ELSE /\ UNCHANGED tdma
                 /\ history' = [history EXCEPT
                                   !.last = TdmaCall("request_slot", node_id,
                                                     Qos(qos_class), -1, -1)]
    /\ UNCHANGED <<engine, services>>

\* tdma_simple.py lines 23-28, tdma_dynamic.py lines 27-33:
\* release_slot(node_id) sets the first slot node_id holds to None, and in
\* DynamicTDMA its qos entry as well
ReleaseSlot(node_id) ==
    /\ IF HeldBy(tdma, node_id) # {}
       THEN LET i == CHOOSE x \in HeldBy(tdma, node_id) :
                        \A j \in HeldBy(tdma, node_id) : x <= j
            IN /\ tdma' = IF tdma.class = "DynamicTDMA"
                          THEN [tdma EXCEPT !.slots[i] = NoneId, !.qos[i] = None]
                          ELSE [tdma EXCEPT !.slots[i] = NoneId]
               /\ history' = [history EXCEPT
                                 !.last = TdmaCall("release_slot", node_id, None,
                                                   TRUE, i)]
       ELSE /\ UNCHANGED tdma
            /\ history' = [history EXCEPT
                              !.last = TdmaCall("release_slot", node_id, None,
                                                FALSE, -1)]
    /\ UNCHANGED <<engine, services>>

\* a fresh object of either class, of NumSlots slots
InitTdma ==
    /\ nodes = EmptyDict
    /\ routing_table = EmptyDict
    /\ neighbor_nodes = {}
    /\ lock = Free
    /\ running = FALSE
    /\ maintenance_thread = NoneId
    /\ now = 0
    /\ pc = [t \in AllThreads |-> IF t \in Threads THEN "idle" ELSE "unborn"]
    /\ frame = [t \in AllThreads |-> NoFrame]
    /\ result = [t \in Threads |-> None]
    /\ calls = 0
    /\ peer_table = EmptyDict
    /\ services = MeshServices
    /\ tdma \in {SimpleTDMA(NumSlots), DynamicTDMA(NumSlots)}
    /\ history = NoHistory

NextTdma ==
    \E node_id \in TdmaNodes :
        \/ RequestSlotSimple(node_id)
        \/ \E qos_class \in QosClasses : RequestSlotDynamic(node_id, qos_class)
        \/ ReleaseSlot(node_id)

SpecTdma == InitTdma /\ [][NextTdma]_vars

----------------------------------------------------------------------------
(* Claims *)

\* what the better-route rule of the specification says about an announcement
\* with effective hop count h and metric class m against the entry existing
RuleInstalls(m, h, existing) ==
    \/ existing = None
    \/ m < existing.metric
    \/ (m = existing.metric /\ h < existing.hop_count)

\* the effective hop count and metric class of an announcement
EffHops(a) == a.hop_count + 1
EffMetric(a) == CalculateMetric(SignalOf(a), EffHops(a))
\* the announcement is rejected before the better-route rule is consulted
RuleRejects(a) == EffHops(a) > max_hop_count \/ a.destination = local_node_id

\* C1: process_route_announcement installs the announced route (next hop the
\* sender, hop count h = hop_count + 1, metric m = classify(signal, h)) if and
\* only if the announcement is not rejected and there is no entry for the
\* destination, or m is strictly lower than the entry's metric, or m is equal
\* and h is strictly less than the entry's hop count; otherwise the table is
\* left as it was.
C1_BetterRouteRule ==
    [][\A t \in Threads :
          /\ (pc[t] = "pra_body" /\ pc'[t] = "pra_loop") =>
                LET a == frame[t].route_data IN
                routing_table' =
                    IF /\ ~RuleRejects(a)
                       /\ RuleInstalls(EffMetric(a), EffHops(a),
                                       DictGet(routing_table, a.destination))
                    THEN DictPut(routing_table, a.destination,
                                 NewRoute(a, frame[t].from_node,
                                          frame[t].current_time))
                    ELSE routing_table
          /\ (pc[t] = "pra_body" /\ pc'[t] = "pra_raise") =>
                routing_table' = routing_table]_vars

\* an existing (metric 2, hops 3) entry has just been replaced by a
\* (metric 2, hops 2) candidate
C1_Witness ==
    \E t \in Threads :
        /\ pc[t] = "pra_loop"
        /\ frame[t].route_data \in WellFormed
        /\ frame[t].existing_route # None
        /\ frame[t].existing_route.metric = 2
        /\ frame[t].existing_route.hop_count = 3
        /\ EffMetric(frame[t].route_data) = 2
        /\ EffHops(frame[t].route_data) = 2
        /\ routing_table[frame[t].route_data.destination] =
              NewRoute(frame[t].route_data, frame[t].from_node,
                       frame[t].current_time)

\* the loop has just finished an announcement that was neither malformed nor
\* rejected, and that does not beat the entry the table held for its destination
LostAgainstExisting(t) ==
    /\ pc[t] = "pra_loop"
    /\ frame[t].route_data # None
    /\ Has(frame[t].route_data, "destination")
    /\ Has(frame[t].route_data, "hop_count")
    /\ ~RuleRejects(frame[t].route_data)
    /\ frame[t].existing_route # None
    /\ ~RuleInstalls(EffMetric(frame[t].route_data), EffHops(frame[t].route_data),
                     frame[t].existing_route)

\* C2: an announcement that does not beat the existing entry for its
\* destination leaves that entry unchanged in every field (next_hop, hop_count,
\* metric, bandwidth_estimate, last_updated): the table still holds the entry
\* the loop body read.
C2_LoserLeavesEntry ==
    \A t \in Threads :
        LostAgainstExisting(t) =>
            /\ frame[t].route_data.destination \in DOMAIN routing_table
            /\ routing_table[frame[t].route_data.destination] =
                  frame[t].existing_route

\* the announcement that installed the entry is processed again, later and from
\* the same sender, and the entry keeps its older last_updated
C2_Witness ==
    \E t \in Threads :
        /\ LostAgainstExisting(t)
        /\ frame[t].existing_route.last_updated < frame[t].current_time
        /\ frame[t].existing_route =
              NewRoute(frame[t].route_data, frame[t].from_node,
                       frame[t].existing_route.last_updated)
        /\ routing_table[frame[t].route_data.destination].last_updated <
              frame[t].current_time

\* C3: no entry of the routing table has the local node's id as destination.
C3_NoRouteToSelf ==
    \A d \in DOMAIN routing_table :
        d # local_node_id /\ routing_table[d].destination # local_node_id

\* C4: every entry of the routing table has hop_count <= max_hop_count.
C4_HopCountBounded ==
    \A d \in DOMAIN routing_table : routing_table[d].hop_count <= max_hop_count

\* an announcement with hop_count 5 (effective 6) has been processed and its
\* destination has no entry, while announcements within the limit are installed
C4_Witness ==
    \E t \in Threads :
        /\ pc[t] = "pra_loop"
        /\ frame[t].route_data \in WellFormed
        /\ EffHops(frame[t].route_data) = max_hop_count + 1
        /\ frame[t].route_data.destination # local_node_id
        /\ frame[t].route_data.destination \notin DOMAIN routing_table

\* C5: an announcement missing a required field is skipped silently: no
\* exception reaches the caller of process_route_announcement, and the call
\* ends only when every announcement of the batch has been looked at.
C5_MalformedSkipped ==
    \A t \in Threads :
        /\ pc[t] # "pra_raise"
        /\ result[t] # [kind |-> "KeyError"]

\* the entries of table that a route-eviction pass run at time current_time keeps
FreshRoutes(table, current_time) ==
    {d \in DOMAIN table :
        current_time - table[d].last_updated <= 3 * route_update_interval}

\* C6: after a route-eviction pass run at time now the routing table holds
\* exactly the entries it held before the pass that satisfy
\* now - last_updated <= 3 * route_update_interval, each unmodified.
C6_RouteEviction ==
    \A m \in MaintIds :
        pc[m] = "csr_exit" =>
            routing_table =
                [d \in FreshRoutes(frame[m].h_table, frame[m].current_time) |->
                    frame[m].h_table[d]]

\* a pass has just removed an entry aged 91 s
C6_Witness ==
    \E m \in MaintIds :
        /\ pc[m] = "csr_exit"
        /\ \E d \in DOMAIN frame[m].h_table :
              /\ frame[m].current_time - frame[m].h_table[d].last_updated
                    = 3 * route_update_interval + 1
              /\ d \notin DOMAIN routing_table

\* the nodes of table that a node-eviction pass run at time current_time keeps
FreshNodes(table, current_time) ==
    {id \in DOMAIN table : current_time - table[id].last_seen <= node_timeout}

\* C7: after a node-eviction pass run at time now every node with
\* now - last_seen > node_timeout is gone from nodes and from neighbor_nodes,
\* and every other node is in nodes, unmodified, and in neighbor_nodes if it
\* was there before.
C7_NodeEviction ==
    \A m \in MaintIds :
        pc[m] = "csn_exit" =>
            LET fresh == FreshNodes(frame[m].h_nodes, frame[m].current_time) IN
            /\ nodes = [id \in fresh |-> frame[m].h_nodes[id]]
            /\ neighbor_nodes =
                  frame[m].h_neighbors \ (DOMAIN frame[m].h_nodes \ fresh)

\* a pass has just removed a node last seen 181 s ago, from both structures
C7_Witness ==
    \E m \in MaintIds :
        /\ pc[m] = "csn_exit"
        /\ \E id \in DOMAIN frame[m].h_nodes :
              /\ frame[m].current_time - frame[m].h_nodes[id].last_seen
                    = node_timeout + 1
              /\ id \in frame[m].h_neighbors
              /\ id \notin DOMAIN nodes
              /\ id \notin neighbor_nodes

\* C8: a caller that modifies a field of the value find_route returned does
\* not change the entry the routing table holds.
C8_ReturnedCopyIndependent ==
    [][\A t \in Threads, w \in Writes :
          Mutate(t, w) => routing_table' = routing_table]_vars

\* positions inside a `with self.lock:` block
InsideWith ==
    {"an_nodes", "an_neighbor", "an_route", "pra_loop", "pra_body",
     "pra_raise", "fr_body", "gra_body", "start_body", "stop_body",
     "csr_scan", "csr_delete", "csr_exit", "csr_raise",
     "csn_scan", "csn_del", "csn_discard", "csn_exit"}

\* C9: the lock is held only by a thread that is inside one of the with
\* blocks: an operation that has ended, by returning or by raising, has
\* released it, and a thread inside a with block is the one holding it.
C9_LockReleasedOnExit ==
    /\ lock # Free => pc[lock] \in InsideWith
    /\ \A t \in AllThreads : pc[t] \in InsideWith => lock = t

\* process_route_announcement has raised KeyError in one thread, and another
\* thread has taken the lock since
C9_Witness ==
    \E t \in Threads :
        /\ pc[t] = "idle"
        /\ result[t] = [kind |-> "KeyError"]
        /\ lock \in AllThreads \ {t}

\* C10: whenever the lock is free, neighbor_nodes is exactly the set of ids
\* of the nodes in the node table whose hop_count is 1.
C10_NeighborIndex ==
    lock = Free =>
        neighbor_nodes = {id \in DOMAIN nodes : nodes[id].hop_count = 1}

\* add_neighbor is half applied (the node is in the table, not yet in the
\* neighbor set) while another caller is between find_route and its read
C10_Witness ==
    \E t \in Threads, u \in Threads :
        /\ pc[t] = "an_neighbor"
        /\ frame[t].node_id \in DOMAIN nodes
        /\ frame[t].node_id \notin neighbor_nodes
        /\ pc[u] = "gnh_read"

\* C14: when add_neighbor(callsign, node_id, s) completes, whatever the store
\* held before, nodes[node_id] has hop_count 1 and signal_strength s, node_id
\* is in neighbor_nodes, and the routing table's entry for node_id (what
\* find_route(node_id) returns) has next_hop node_id, hop_count 1 and the metric
\* class of (s, 1); a signal of 0.85 gives class 1.
C14_AddNeighborInstalls ==
    [][\A t \in Threads :
          (pc[t] = "an_route" /\ pc'[t] = "idle") =>
              LET id == frame[t].node_id
                  s == frame[t].signal_strength
              IN /\ id \in DOMAIN nodes'
                 /\ nodes'[id].hop_count = 1
                 /\ nodes'[id].signal_strength = s
                 /\ id \in neighbor_nodes'
                 /\ id \in DOMAIN routing_table'
                 /\ routing_table'[id].destination = id
                 /\ routing_table'[id].next_hop = id
                 /\ routing_table'[id].hop_count = 1
                 /\ routing_table'[id].metric = CalculateMetric(s, 1)
                 /\ CalculateMetric(85, 1) = 1]_vars

\* add_neighbor has completed, at a time later than 0, and the node, the
\* neighbor set and the direct route are all there
C14_Witness ==
    \E t \in Threads, id \in NodeIds :
        /\ pc[t] = "idle"
        /\ result[t] = None
        /\ id \in neighbor_nodes
        /\ id \in DOMAIN nodes
        /\ id \in DOMAIN routing_table
        /\ routing_table[id].next_hop = id
        /\ routing_table[id].hop_count = 1
        /\ routing_table[id].last_updated > 0
        /\ nodes[id].last_seen = routing_table[id].last_updated

\* C15: whenever process_route_announcement(from_node, ...) installs a route
\* for an announcement {destination d, hop_count k, signal_strength s}, the new
\* entry has destination d, next_hop from_node, hop_count k + 1, the metric
\* class of (s, k + 1) and last_updated the time the batch is processed at.
C15_InstalledEntry ==
    [][\A t \in Threads :
          (/\ pc[t] = "pra_body"
           /\ pc'[t] = "pra_loop"
           /\ routing_table' # routing_table) =>
              LET a == frame[t].route_data
                  e == routing_table'[a.destination]
              IN /\ DOMAIN routing_table' = DOMAIN routing_table \cup {a.destination}
                 /\ \A d \in DOMAIN routing_table \ {a.destination} :
                       routing_table'[d] = routing_table[d]
                 /\ e.destination = a.destination
                 /\ e.next_hop = frame[t].from_node
                 /\ e.hop_count = a.hop_count + 1
                 /\ e.metric = CalculateMetric(SignalOf(a), a.hop_count + 1)
                 /\ e.last_updated = frame[t].current_time]_vars

\* {node-B, hop_count 1, signal 1.0} from node-A was processed on a table
\* without an entry for node-B: the entry is two hops via node-A
C15_Witness ==
    \E t \in Threads :
        /\ pc[t] = "pra_loop"
        /\ frame[t].route_data =
              [destination |-> "node-B", hop_count |-> 1, signal_strength |-> 100]
        /\ frame[t].from_node = "node-A"
        /\ frame[t].existing_route = None
        /\ "node-B" \in DOMAIN routing_table
        /\ routing_table["node-B"].hop_count = 2
        /\ routing_table["node-B"].next_hop = "node-A"

\* C16: an announcement carrying its fields that is rejected, because
\* hop_count + 1 > max_hop_count or because its destination is the local node
\* id, raises no error (the loop goes on to the next announcement) and leaves
\* the routing table, nodes and neighbor_nodes as they were.
C16_RejectedLeavesStore ==
    [][\A t \in Threads :
          (/\ pc[t] = "pra_body"
           /\ pc'[t] # "pra_body"
           /\ frame[t].route_data \in WellFormed
           /\ RuleRejects(frame[t].route_data)) =>
              /\ pc'[t] = "pra_loop"
              /\ routing_table' = routing_table
              /\ nodes' = nodes
              /\ neighbor_nodes' = neighbor_nodes]_vars

\* an announcement with hop_count 5 for a destination that has an entry has
\* been looked at, and the entry is the one the table held
C16_Witness ==
    \E t \in Threads :
        /\ pc[t] = "pra_loop"
        /\ frame[t].route_data \in WellFormed
        /\ frame[t].route_data.hop_count = max_hop_count
        /\ frame[t].route_data.destination \in DOMAIN routing_table
        /\ routing_table[frame[t].route_data.destination].hop_count = 1

\* C17: get_route_announcements called at time now returns exactly one record
\* for each routing table entry with now - last_updated <= 2 *
\* route_update_interval, none for an older entry, and changes nothing in the
\* store.
C17_AnnouncedRoutes ==
    [][\A t \in Threads :
          (pc[t] = "gra_body" /\ pc'[t] = "idle") =>
              /\ routing_table' = routing_table
              /\ nodes' = nodes
              /\ neighbor_nodes' = neighbor_nodes
              /\ result'[t].kind = "list"
              /\ \A r \in result'[t].value : r.destination \in DOMAIN routing_table
              /\ \A d \in DOMAIN routing_table :
                    LET records == {r \in result'[t].value : r.destination = d} IN
                    IF now - routing_table[d].last_updated <= 2 * route_update_interval
                    THEN /\ Cardinality(records) = 1
                         /\ \A r \in records :
                               /\ r.hop_count = routing_table[d].hop_count
                               /\ r.metric = routing_table[d].metric
                               /\ r.timestamp = routing_table[d].last_updated
                    ELSE records = {}]_vars

\* the list returned is empty while the table holds an entry aged 90 s: older
\* than twice the interval, not older than three times
C17_Witness ==
    \E t \in Threads :
        /\ pc[t] = "idle"
        /\ result[t] = [kind |-> "list", value |-> {}]
        /\ \E d \in DOMAIN routing_table :
              now - routing_table[d].last_updated = 3 * route_update_interval

\* C20: find_route(d) and get_next_hop(d) for a destination without an entry
\* return None and raise nothing, and no step of either query, for a known or
\* an unknown destination, changes nodes, routing_table or neighbor_nodes.
C20_QueriesPure ==
    [][\A t \in Threads :
          /\ (pc[t] = "fr_body" /\ pc'[t] # "fr_body") =>
                /\ store' = store
                /\ frame[t].destination \notin DOMAIN routing_table =>
                      result'[t] = None
          /\ (pc[t] = "gnh_read" /\ pc'[t] # "gnh_read") =>
                /\ store' = store
                /\ pc'[t] = "idle"
                /\ result[t] = None => result'[t] = None
          /\ (pc[t] = "idle" /\ pc'[t] = "fr_body") => store' = store]_vars

\* get_next_hop has returned None for a destination that another destination's
\* entry does not answer
C20_Witness ==
    \E t \in Threads :
        /\ pc[t] = "gnh_read"
        /\ result[t] = None
        /\ frame[t].destination \notin DOMAIN routing_table
        /\ routing_table # EmptyDict

\* the classes of the specification, in exact arithmetic: adjusted is
\* s/100 * 0.8^(h-1), and adjusted > k/10 is s * 8^(h-1) > k * 10^h
AdjustedExceeds(s, h, k) == s * Pow(8, h - 1) > k * Pow(10, h)
Classify(s, h) ==
    IF AdjustedExceeds(s, h, 8) THEN 1
    ELSE IF AdjustedExceeds(s, h, 6) THEN 2
    ELSE IF AdjustedExceeds(s, h, 4) THEN 3
    ELSE IF AdjustedExceeds(s, h, 2) THEN 4
    ELSE 5

\* C18: the class returned for (signal_strength, hop_count) is the one the
\* thresholds give for adjusted = signal_strength * 0.8^(hop_count - 1): 1 above
\* 0.8, else 2 above 0.6, else 3 above 0.4, else 4 above 0.2, else 5, a value
\* exactly on a threshold falling into the worse class.
C18_ClassifyThresholds ==
    \A t \in Threads :
        pc[t] = "cm_done" =>
            result[t].value =
                Classify(frame[t].signal_strength, frame[t].hop_count)

\* C19: for a fixed hop count a higher signal never gives a worse class: the
\* class returned for (s, h) is no greater than the class of (s1, h) for any
\* s1 <= s, and no less than the class of (s2, h) for any s2 >= s.
C19_MetricMonotone ==
    \A t \in Threads :
        pc[t] = "cm_done" =>
            LET s == frame[t].signal_strength
                h == frame[t].hop_count
            IN /\ \A s1 \in 0..s : result[t].value <= CalculateMetric(s1, h)
               /\ \A s2 \in s..MaxSignal : CalculateMetric(s2, h) <= result[t].value

\* the call has returned class 2 for a signal of 0.80 at one hop, and signals
\* on either side of it have the classes 1 and 2
C19_Witness ==
    \E t \in Threads :
        /\ pc[t] = "cm_done"
        /\ frame[t].signal_strength = 80
        /\ frame[t].hop_count = 1
        /\ result[t].value = 2
        /\ CalculateMetric(81, 1) = 1
        /\ CalculateMetric(61, 1) = 2

\* C11: once the running flag is cleared, every maintenance thread that is
\* alive ends, unless start() sets the flag again first; a thread that checks
\* the loop condition while the flag is cleared ends there, and a thread that
\* has ended takes no further step (no further tick).
C11_SchedulerExits ==
    /\ \A m \in MaintIds :
          (~running /\ pc[m] \notin {"unborn", "dead"}) ~>
              (running \/ pc[m] = "dead")
    /\ [][\A m \in MaintIds :
             /\ (pc[m] = "loop" /\ ~running /\ pc'[m] # "loop") => pc'[m] = "dead"
             /\ pc[m] = "dead" => pc'[m] = "dead"]_vars

\* the flag is cleared while a maintenance thread is in the middle of a tick
C11_Witness ==
    \E m \in MaintIds :
        /\ ~running
        /\ pc[m] \in {"csr_enter", "csn_enter", "sleep"}

\* C12: stop() always returns, whether or not there is a maintenance thread
\* and whether or not that thread has ended; and while it waits for the
\* thread it does not hold the lock.
C12_StopReturns ==
    /\ \A t \in Threads : (pc[t] = "stop_body") ~> (pc[t] = "idle")
    /\ [](\A t \in Threads : pc[t] \in {"stop_read", "stop_join"} => lock # t)

\* stop() is waiting for a maintenance thread that has not ended while the
\* timeout of the join has passed: it is about to return regardless
C12_Witness ==
    \E t \in Threads :
        /\ pc[t] = "stop_join"
        /\ pc[frame[t].thread] # "dead"
        /\ TimerExpired(frame[t].deadline)

\* C13: a tick that raises does not end the scheduler: the lock is released
\* as the exception leaves the tick, the thread backs off, and unless the
\* running flag is cleared it begins a further tick; other operations can take
\* the lock in the meantime.
C13_TickFailureNotFatal ==
    /\ \A m \in MaintIds :
          (pc[m] = "csr_raise") ~> (~running \/ pc[m] = "csr_scan")
    /\ [][\A m \in MaintIds :
             (pc[m] = "csr_raise" /\ pc'[m] # "csr_raise") =>
                 /\ lock' = Free
                 /\ pc'[m] = "sleep"
                 /\ store' = store]_vars

\* a maintenance thread is backing off after a tick that raised while a caller
\* is inside an operation on the store
C13_Witness ==
    \E m \in MaintIds, t \in Threads :
        /\ pc[m] = "sleep"
        /\ frame[m].op = "backoff"
        /\ running
        /\ lock = t

\* C22: the routing table holds one entry per destination: the entry stored
\* under key d has destination d (so no two entries are for the same
\* destination), after any sequence of add_neighbor, process_route_announcement
\* and eviction passes.
C22_OneEntryPerDestination ==
    /\ \A d \in DOMAIN routing_table : routing_table[d].destination = d
    /\ \A d, e \in DOMAIN routing_table :
          routing_table[d].destination = routing_table[e].destination => d = e

\* the table holds a direct route and a route learned from an announcement
C22_Witness ==
    /\ Cardinality(DOMAIN routing_table) = 2
    /\ \E d \in DOMAIN routing_table : routing_table[d].next_hop # d
    /\ \E d \in DOMAIN routing_table : routing_table[d].next_hop = d

\* C23 (as claimed): whenever the entry for a destination is replaced, by
\* process_route_announcement or by add_neighbor, the replacement satisfies the
\* better-route rule against the entry it replaces.
C23_EveryReplacementBetter ==
    [][\A d \in DOMAIN routing_table \cap DOMAIN routing_table' :
          routing_table'[d] # routing_table[d] =>
              RuleInstalls(routing_table'[d].metric, routing_table'[d].hop_count,
                           routing_table[d])]_vars

\* C23 (as the code has it): whenever process_route_announcement replaces the
\* entry for a destination, the replacement satisfies the better-route rule
\* against the entry it replaces; add_neighbor overwrites the entry whatever
\* its metric.
C23_AnnouncedReplacementBetter ==
    [][\A t \in Threads, d \in DOMAIN routing_table \cap DOMAIN routing_table' :
          (pc[t] = "pra_body" /\ routing_table'[d] # routing_table[d]) =>
              RuleInstalls(routing_table'[d].metric, routing_table'[d].hop_count,
                           routing_table[d])]_vars

\* an announcement has replaced a direct route by a route of a better class
C23_Witness ==
    \E t \in Threads :
        /\ pc[t] = "pra_loop"
        /\ frame[t].existing_route # None
        /\ frame[t].existing_route.hop_count = 1
        /\ frame[t].route_data \in WellFormed
        /\ routing_table[frame[t].route_data.destination].metric
              < frame[t].existing_route.metric
        /\ routing_table[frame[t].route_data.destination].next_hop
              = frame[t].from_node

\* C28: the next_hop of every routing table entry is in neighbor_nodes.
C28_NextHopIsNeighbor ==
    \A d \in DOMAIN routing_table : routing_table[d].next_hop \in neighbor_nodes

\* C30: a maintenance thread that has done its route eviction and not yet its
\* node eviction shuts every caller out: no caller is inside an operation on
\* the store between the two.
C30_TickOneRegion ==
    \A m \in MaintIds :
        pc[m] \in {"csr_exit", "csn_enter", "csn_scan"} => lock \notin Threads

\* the candidates two finished calls have handed in: the (metric, hop_count)
\* of every announcement of their lists that is not rejected
HandedIn ==
    {<<EffMetric(a), EffHops(a)>> :
        a \in {x \in UNION {{frame[t].routes[i] : i \in 1..Len(frame[t].routes)} :
                               t \in Threads} : ~RuleRejects(x)}}
LexLess(p, q) == p[1] < q[1] \/ (p[1] = q[1] /\ p[2] < q[2])

\* C21: when the announcements for one destination have all been processed,
\* in whatever order and however split into batches, the entry's (metric,
\* hop_count) is the lexicographic minimum of the candidates that were not
\* rejected (and there is no entry when all were rejected).
C21_OrderIndependent ==
    (\A t \in Threads : pc[t] = "pra_done") =>
        IF HandedIn = {}
        THEN "node-B" \notin DOMAIN routing_table
        ELSE /\ "node-B" \in DOMAIN routing_table
             /\ LET e == routing_table["node-B"]
                    p == <<e.metric, e.hop_count>>
                IN /\ p \in HandedIn
                   /\ \A q \in HandedIn : ~LexLess(q, p)

\* two batches are done, the better candidate (2,2) came first in one batch
\* and the worse ones (3,1) and (4,2) after it and in the other batch
C21_Witness ==
    /\ \A t \in Threads : pc[t] = "pra_done"
    /\ Len(frame["t1"].routes) = 2
    /\ EffMetric(frame["t1"].routes[1]) = 2 /\ EffHops(frame["t1"].routes[1]) = 2
    /\ EffMetric(frame["t1"].routes[2]) = 3 /\ EffHops(frame["t1"].routes[2]) = 1
    /\ Len(frame["t2"].routes) = 1
    /\ EffMetric(frame["t2"].routes[1]) = 4
    /\ routing_table["node-B"].metric = 2
    /\ routing_table["node-B"].hop_count = 2

\* C24: at most one maintenance thread is executing the maintenance loop at
\* any time, after any sequence of start() and stop() calls.
C24_OneScheduler ==
    Cardinality({m \in MaintIds : pc[m] \notin {"unborn", "dead"}}) <= 1

\* C29: while the engine is running, an entry whose age exceeds 3 *
\* route_update_interval is removed, unless it is replaced (the destination
\* then has an entry of a younger age) or the engine is stopped first; and as
\* long as start() has never been called no entry leaves the table.
C29_StaleRouteEvicted ==
    /\ \A d \in NodeIds :
          (/\ running
           /\ d \in DOMAIN routing_table
           /\ now - routing_table[d].last_updated > 3 * route_update_interval)
          ~> (\/ ~running
              \/ d \notin DOMAIN routing_table
              \/ now - routing_table[d].last_updated <= 3 * route_update_interval)
    /\ [][maintenance_thread' = NoneId =>
             DOMAIN routing_table \subseteq DOMAIN routing_table']_vars

\* the engine is running and holds an entry aged 91 s that no tick has looked
\* at yet
C29_Witness ==
    /\ running
    /\ \E d \in DOMAIN routing_table :
          now - routing_table[d].last_updated = 3 * route_update_interval + 1
    /\ \E m \in MaintIds : pc[m] = "sleep"

\* C25: a route that its next hop announces unchanged once every
\* route_update_interval stays in the routing table from its first
\* announcement on, and is never too old for get_route_announcements to
\* return it.
C25_ReannouncedRouteStays ==
    (now > 0 \/ pc["t1"] = "pra_done") =>
        /\ Repeated.destination \in DOMAIN routing_table
        /\ now - routing_table[Repeated.destination].last_updated
              <= 2 * route_update_interval

\* C26: relaying never improves quality.  When node-B is handed the records
\* that get_route_announcements() of "local" returned, every route node-B
\* installs from them has a metric class numerically no lower than the class
\* "local" held for that destination (the class the record carries).
C26_RelayNeverImproves ==
    [][\A t \in Threads :
          (pc[t] = "idle" /\ pc'[t] = "relayed") =>
              \A a \in PeerInstalled(peer_table, result[t].value) :
                  peer_table'[a.destination].metric >= a.metric]_vars

\* C27: loop freedom between two engines.  For no destination does "local"
\* route through node-B while node-B routes through "local".
C27_NoTwoEngineLoop ==
    \A d \in DOMAIN routing_table \cap DOMAIN peer_table :
        ~ /\ routing_table[d].next_hop = peer_node_id
          /\ peer_table[d].next_hop = local_node_id

\* C31: process_route_announcement never creates, refreshes or removes a node
\* and never changes neighbor_nodes; so a neighbor whose last add_neighbor is
\* more than node_timeout ago is evicted, its announcements arriving or not,
\* unless add_neighbor observes it again first.
C31_AnnouncementsAreNoContact ==
    /\ [][\A t \in Threads :
             (\/ pc[t] \in {"pra_loop", "pra_body", "pra_raise"}
              \/ pc'[t] = "pra_loop")
             => (nodes' = nodes /\ neighbor_nodes' = neighbor_nodes)]_vars
    /\ \A id \in NodeIds :
          (id \in DOMAIN nodes /\ now - nodes[id].last_seen > node_timeout)
          ~> (\/ id \notin DOMAIN nodes
              \/ now - nodes[id].last_seen <= node_timeout)

\* node-A, never observed again since time 0, has been evicted, and an
\* announcement from it that arrived after node_timeout has just been processed
C31_Witness ==
    /\ "node-A" \notin DOMAIN nodes
    /\ "node-A" \notin neighbor_nodes
    /\ calls = MaxCalls - 1
    /\ InitBeside
    /\ \E t \in Threads :
          /\ pc[t] = "pra_done"
          /\ frame[t].from_node = "node-A"
          /\ frame[t].current_time > node_timeout

\* what get_mesh_status returns when all of it is read from the store as it
\* is at one moment, at time current_time
StatusOf(current_time) ==
    [kind |-> "status",
     total_nodes |-> Cardinality(DOMAIN nodes),
     active_nodes |-> ActiveNodes(nodes, current_time),
     neighbor_count |-> Cardinality(neighbor_nodes),
     route_count |-> Cardinality(DOMAIN routing_table),
     route_metrics |-> RouteMetrics(routing_table),
     running |-> running,
     timestamp |-> current_time]

\* C32: every get_mesh_status result describes one single store state, the
\* one the call returns from: route_count is the sum of the counts in
\* route_metrics, active_nodes is at most total_nodes and neighbor_count is at
\* most total_nodes.
C32_StatusIsOneState ==
    /\ [](\A t \in Threads :
            result[t].kind = "status" =>
                /\ result[t].route_count = SumValues(result[t].route_metrics)
                /\ result[t].active_nodes <= result[t].total_nodes
                /\ result[t].neighbor_count <= result[t].total_nodes)
    /\ [][\A t \in Threads :
             (pc[t] = "gms_return" /\ pc'[t] = "idle") =>
                 result'[t] = StatusOf(frame[t].current_time)]_vars

\* a status taken while the maintenance thread is alive and after a writer
\* installed a second route: two routes in two classes, one node, which is a
\* neighbor and no longer active
C32_Witness ==
    \E t \in Threads :
        /\ result[t].kind = "status"
        /\ result[t].running
        /\ result[t].route_count = 2
        /\ Cardinality(DOMAIN result[t].route_metrics) = 2
        /\ result[t].total_nodes = 1
        /\ result[t].neighbor_count = 1
        /\ result[t].active_nodes = 0

\* the list a is the list b read round from some position
IsRotation(a, b) ==
    /\ Len(a) = Len(b)
    /\ \/ Len(a) = 0
       \/ \E k \in 0..(Len(a) - 1) :
             \A j \in 1..Len(a) : a[j] = b[((j - 1 + k) % Len(a)) + 1]

\* C33: get_primary(dest) returns the first path that was added for dest
\* (None if none was), whatever add_path and load_balance calls came before;
\* and load_balance(dest) hands out the paths of dest round-robin in insertion
\* order: n consecutive calls over n paths return each path once, in the
\* order the paths were added, begun at some position.
C33_PrimaryIsFirstAdded ==
    /\ (history.last # None /\ history.last.op = "get_primary") =>
          history.last.value =
              IF DictGetSeq(history.added, history.last.dest) # <<>>
              THEN Returned(history.added[history.last.dest][1])
              ELSE None
    /\ \A d \in DOMAIN history.handed :
          Len(history.handed[d]) = Len(history.added[d]) =>
              IsRotation(history.handed[d], history.added[d])

\* the lowest index among the free slots of the object
LowestFree(obj) ==
    CHOOSE i \in FreeSlots(obj) : \A j \in FreeSlots(obj) : j >= i

\* the step is a request_slot call that returned
RequestReturned == history'.last # None /\ history'.last.op = "request_slot"
                   /\ "value" \in DOMAIN history'.last

\* every slot is taken and, for DynamicTDMA, the class asked for is not
\* strictly smaller than the largest class held
NothingToGive(call) ==
    /\ FreeSlots(tdma) = {}
    /\ tdma.class = "DynamicTDMA" =>
          \E i \in DOMAIN tdma.qos : call.qos_class.value >= tdma.qos[i].value
                /\ \A j \in DOMAIN tdma.qos :
                      tdma.qos[j].value <= tdma.qos[i].value

\* request_slot gives out the lowest-index free slot and returns its index;
\* with nothing to give it returns -1 and changes no slot
RequestRule ==
    RequestReturned =>
        LET call == history'.last IN
        /\ FreeSlots(tdma) # {} =>
              /\ call.value = LowestFree(tdma)
              /\ tdma'.slots = [tdma.slots EXCEPT ![LowestFree(tdma)] = call.node_id]
        /\ NothingToGive(call) => (call.value = -1 /\ tdma' = tdma)

\* in DynamicTDMA slots[i] is None exactly when qos[i] is None
SlotsMatchQos ==
    tdma.class = "DynamicTDMA" =>
        \A i \in DOMAIN tdma.slots : (tdma.slots[i] = NoneId) <=> (tdma.qos[i] = None)

\* the last call was a release_slot that freed a slot
JustReleased ==
    /\ history.last # None
    /\ history.last.op = "release_slot"
    /\ history.last.value

\* C34 as stated: request_slot assigns the lowest-index free slot and returns
\* its index; when every slot is occupied (and, for DynamicTDMA, the class
\* asked for is not strictly smaller than the largest held) it returns -1 and
\* changes no slot; release_slot(node) frees a slot held by node so that the
\* next request_slot reuses it; and in DynamicTDMA slots[i] is None exactly
\* when qos[i] is None.
C34_ReleasedSlotIsReused ==
    /\ [][RequestRule]_vars
    /\ [][(JustReleased /\ RequestReturned) =>
             history'.last.value = history.last.freed]_vars
    /\ []SlotsMatchQos

\* C34 amended: as above, but release_slot(node) frees the lowest-index slot
\* held by node, and the next request_slot reuses it unless a slot of a lower
\* index is free as well, which it then takes instead.
C34_ReleasedSlotIsFree ==
    /\ [][RequestRule]_vars
    /\ [](JustReleased =>
             /\ history.last.freed \in FreeSlots(tdma)
             /\ history.last.node_id \notin
                   {tdma.slots[i] : i \in 0..(history.last.freed - 1)})
    /\ [][(JustReleased /\ RequestReturned) =>
             /\ history'.last.value = LowestFree(tdma)
             /\ history'.last.value <= history.last.freed
             /\ (\A i \in FreeSlots(tdma) : i >= history.last.freed)
                   => history'.last.value = history.last.freed]_vars
    /\ []SlotsMatchQos

\* a DynamicTDMA whose slots were all taken: one was released and the request
\* that followed got that slot again
C34_Witness ==
    /\ tdma.class = "DynamicTDMA"
    /\ FreeSlots(tdma) = {}
    /\ history.last # None
    /\ history.last.op = "request_slot"
    /\ history.last.value = NumSlots - 1
    /\ history.last.node_id = "C"
    /\ tdma.slots[0] = "A"

====
